---- MODULE Spec2Model ----
(***************************************************************************)
(* Verification model of the hex-map generation core (sksmith/hex-map):    *)
(* the coordinate algebra and the Grid of pkg/hex, and the terrain         *)
(* pipeline of pkg/terrain and internal/noise.                             *)
(*                                                                         *)
(* Integers are Go ints.  Go's "/" truncates toward zero and "%" takes the *)
(* sign of the dividend, so both are modelled by GoDiv / GoMod and never   *)
(* by the floored \div and % of TLA+.                                      *)
(***************************************************************************)
EXTENDS Integers, Sequences, FiniteSets, TLC

VARIABLES
    config,     \* Grid.config : GridConfig {Width, Height, Topology}
    tiles,      \* Grid.tiles  : [row][col] -> payload (Nil when unset)
    coordMap,   \* Grid.coordMap : the set of axial coordinates mapped to true
    lastSet,    \* history: per cell, the value of the latest Set aimed at it
    nsets,      \* history: number of Set calls made so far
    op,         \* the call that has just returned: its name, arguments and result
    panicked,   \* TRUE once a call has panicked or entered a loop that never ends
    rngLast,    \* state in which the most recently used generator object was left
    history     \* history: the generation calls made so far, with what each returned

vars == <<config, tiles, coordMap, lastSet, nsets, op, panicked, rngLast, history>>

gridVars == <<config, tiles, coordMap>>
terrainVars == <<rngLast, history>>

----------------------------------------------------------------------------
(* Bounds of the model *)

MaxWidth == 3
MaxHeight == 3
CoordRange == 2
MaxSets == 2
MaxCalls == 3

(* Program constants *)

TopologyRegion == 0
TopologyWorld == 1

(* the nil interface value of an unset cell; payloads are 1, 2 *)
Nil == 0
Values == {1, 2}

Widths == 1..MaxWidth
Heights == 1..MaxHeight
Topologies == {TopologyRegion, TopologyWorld}

Coords == [Q : (-CoordRange)..CoordRange, R : (-CoordRange)..CoordRange]

----------------------------------------------------------------------------
(* Go integer arithmetic *)

abs(x) == IF x < 0 THEN -x ELSE x

\* Go's x / y for y > 0: truncation toward zero
GoDiv(x, y) == IF x >= 0 THEN x \div y ELSE -((-x) \div y)

\* Go's x % y for y > 0: the remainder has the sign of x
GoMod(x, y) == x - y * GoDiv(x, y)

\* x & 1 on a two's complement int: the low bit, 1 for every odd x, negative included
BitAnd1(x) == x % 2

----------------------------------------------------------------------------
(* Coordinate algebra: pkg/hex/coordinate.go *)

NewAxialCoord(q, r) == [Q |-> q, R |-> r]

\* the parity term dropped: row = r + q/2
ToOffsetTruncated(c) ==
    [col |-> c.Q, row |-> c.R + GoDiv(c.Q, 2)]

ToOffset(c) ==
    [col |-> c.Q, row |-> c.R + GoDiv(c.Q + BitAnd1(c.Q), 2)]

OffsetToAxial(col, row) ==
    [Q |-> col, R |-> row - GoDiv(col + BitAnd1(col), 2)]

hexDistance(a, b) ==
    GoDiv(abs(a.Q - b.Q) + abs(a.Q + a.R - b.Q - b.R) + abs(a.R - b.R), 2)

hexDirections ==
    << [Q |-> 1, R |-> 0], [Q |-> 1, R |-> -1], [Q |-> 0, R |-> -1],
       [Q |-> -1, R |-> 0], [Q |-> -1, R |-> 1], [Q |-> 0, R |-> 1] >>

----------------------------------------------------------------------------
(* Grid: pkg/hex/coordinate.go *)

NewGridTiles(cfg) ==
    [rc \in (0..(cfg.Height - 1)) \X (0..(cfg.Width - 1)) |-> Nil]

NewGridCoordMap(cfg) ==
    {OffsetToAxial(col, row) : col \in 0..(cfg.Width - 1), row \in 0..(cfg.Height - 1)}

\* the bare Go remainder, negative for a negative offset
WrapCoordNoFix(coord) ==
    IF config.Topology # TopologyWorld THEN coord
    ELSE LET o == ToOffset(coord)
         IN  OffsetToAxial(GoMod(o.col, config.Width), GoMod(o.row, config.Height))

WrapCoord(coord) ==
    IF config.Topology # TopologyWorld THEN coord
    ELSE LET o == ToOffset(coord)
             col == GoMod(GoMod(o.col, config.Width) + config.Width, config.Width)
             row == GoMod(GoMod(o.row, config.Height) + config.Height, config.Height)
         IN  OffsetToAxial(col, row)

IsValid(coord) ==
    IF config.Topology = TopologyWorld
    THEN WrapCoord(coord) \in coordMap
    ELSE coord \in coordMap

\* an index expression g.tiles[row][col] panics when row or col is out of range
InRange(row, col) == <<row, col>> \in DOMAIN tiles

\* the validity check skipped
GetUnchecked(coord) ==
    LET c == IF config.Topology = TopologyWorld THEN WrapCoord(coord) ELSE coord
        o == ToOffset(c)
    IN  IF InRange(o.row, o.col)
        THEN [ret |-> tiles[o.row, o.col], panicked |-> FALSE]
        ELSE [ret |-> Nil, panicked |-> TRUE]

Get(coord) ==
    LET c == IF config.Topology = TopologyWorld THEN WrapCoord(coord) ELSE coord
        o == ToOffset(c)
    IN  IF ~IsValid(c) THEN [ret |-> Nil, panicked |-> FALSE]
        ELSE IF InRange(o.row, o.col)
             THEN [ret |-> tiles[o.row, o.col], panicked |-> FALSE]
             ELSE [ret |-> Nil, panicked |-> TRUE]

\* the store indexed [col][row]
SetTransposed(coord, value) ==
    LET c == IF config.Topology = TopologyWorld THEN WrapCoord(coord) ELSE coord
        o == ToOffset(c)
    IN  IF ~IsValid(c) THEN [tiles |-> tiles, panicked |-> FALSE]
        ELSE IF InRange(o.col, o.row)
             THEN [tiles |-> [tiles EXCEPT ![o.col, o.row] = value], panicked |-> FALSE]
             ELSE [tiles |-> tiles, panicked |-> TRUE]

\* the cell array after Set(coord, value), and whether the store panicked
SetResult(coord, value) ==
    LET c == IF config.Topology = TopologyWorld THEN WrapCoord(coord) ELSE coord
        o == ToOffset(c)
    IN  IF ~IsValid(c) THEN [tiles |-> tiles, panicked |-> FALSE]
        ELSE IF InRange(o.row, o.col)
             THEN [tiles |-> [tiles EXCEPT ![o.row, o.col] = value], panicked |-> FALSE]
             ELSE [tiles |-> tiles, panicked |-> TRUE]

\* the loops nested the other way round
AllCoordsColumnMajor ==
    [i \in 1..(config.Width * config.Height) |->
        OffsetToAxial((i - 1) \div config.Height, (i - 1) % config.Height)]

\* row-major: the outer loop runs over rows, the inner loop over columns
AllCoords ==
    [i \in 1..(config.Width * config.Height) |->
        OffsetToAxial((i - 1) % config.Width, (i - 1) \div config.Width)]

Step(c, i) == [Q |-> c.Q + hexDirections[i].Q, R |-> c.R + hexDirections[i].R]

\* the validity filter of the Region branch dropped
NeighborsUnfiltered(c) ==
    IF config.Topology = TopologyWorld
    THEN [i \in 1..6 |-> WrapCoord(Step(c, i))]
    ELSE [i \in 1..6 |-> Step(c, i)]

Neighbors(c) ==
    IF config.Topology = TopologyWorld
    THEN [i \in 1..6 |-> WrapCoord(Step(c, i))]
    ELSE SelectSeq([i \in 1..6 |-> Step(c, i)], IsValid)

IsEdgeHex(c) ==
    IF config.Topology = TopologyWorld THEN FALSE
    ELSE Len(Neighbors(c)) < 6

MinOf(S) == CHOOSE m \in S : \A x \in S : m <= x

\* replicas taken on one side only (dq, dr in {0, 1})
WrappedOtherOneSided(other, dq, dr) ==
    [Q |-> other.Q + abs(dq) * config.Width, R |-> other.R + abs(dr) * config.Height]

\* replicas shifted in offset space and converted back
WrappedOtherOffset(other, dq, dr) ==
    LET o == ToOffset(other)
    IN  OffsetToAxial(o.col + dq * config.Width, o.row + dr * config.Height)

\* the replica of 'other' examined by DistanceTo for (dq, dr): the grid
\* dimensions are added to the axial Q and R
WrappedOther(other, dq, dr) ==
    [Q |-> other.Q + dq * config.Width, R |-> other.R + dr * config.Height]

DistanceTo(c, other) ==
    IF config.Topology = TopologyRegion THEN hexDistance(c, other)
    ELSE MinOf({hexDistance(c, other)} \cup
               {hexDistance(c, WrappedOther(other, dq, dr)) :
                    dq \in {-1, 0, 1}, dr \in {-1, 0, 1}})

\* math.Round of the fraction n / d (d > 0): nearest integer, halves away
\* from zero
Round(n, d) ==
    IF n >= 0 THEN (2 * n + d) \div (2 * d) ELSE -((d - 2 * n) \div (2 * d))

\* the branch of axialRound taken for the rounded values rq, rr, rs of the
\* fractions qn / d, rn / d, sn / d
Rounded(qn, rn, sn, d, rq, rr, rs) ==
    IF abs(rq * d - qn) > abs(rr * d - rn) /\ abs(rq * d - qn) > abs(rs * d - sn)
    THEN [Q |-> -rr - rs, R |-> rr]
    ELSE IF abs(rr * d - rn) > abs(rs * d - sn)
         THEN [Q |-> rq, R |-> -rq - rs]
         ELSE [Q |-> rq, R |-> rr]

\* axialRound(q, r) for q = qn / d and r = rn / d
axialRound(qn, rn, d) ==
    Rounded(qn, rn, -qn - rn, d, Round(qn, d), Round(rn, d), Round(-qn - rn, d))

\* path[i] of hexPathRegion for t = i / distance.  The interpolated point is
\* kept as an exact fraction of distance; in float64 the rounding of t can
\* move a point that lies exactly on the boundary of two hexes to either side.
Interpolated(from, to, i, distance) ==
    axialRound(from.Q * (distance - i) + to.Q * i,
               from.R * (distance - i) + to.R * i, distance)

PathOfLength(from, to, distance) ==
    IF distance = 0 THEN <<from>>
    ELSE [k \in 1..(distance + 1) |->
            IF k = 1 THEN from
            ELSE IF k = distance + 1 THEN to
            ELSE Interpolated(from, to, k - 1, distance)]

hexPathRegion(from, to) == PathOfLength(from, to, hexDistance(from, to))

\* the targets ShortestPath compares, in the order it examines them: 'to',
\* then its replicas shifted in offset space for dCol, dRow = -1, 0, 1
WrappedTo(to) ==
    <<to>> \o [k \in 1..9 |->
                OffsetToAxial(ToOffset(to).col + (((k - 1) \div 3) - 1) * config.Width,
                              ToOffset(to).row + (((k - 1) % 3) - 1) * config.Height)]

\* the first of the targets at the least distance (the update is on a
\* strictly smaller distance)
FirstAt(from, targets, minDist) ==
    targets[MinOf({k \in DOMAIN targets : hexDistance(from, targets[k]) = minDist})]

BestOf(from, targets) ==
    FirstAt(from, targets,
            MinOf({hexDistance(from, targets[k]) : k \in DOMAIN targets}))

Wrapped(path) == [k \in DOMAIN path |-> WrapCoord(path[k])]

ShortestPath(from, to) ==
    IF config.Topology = TopologyRegion THEN hexPathRegion(from, to)
    ELSE Wrapped(hexPathRegion(from, BestOf(from, WrappedTo(to))))

----------------------------------------------------------------------------
(* Mathematical definitions used to state the claims and to keep the      *)
(* history variable: floored \div and % of TLA+, not the operators that   *)
(* model the Go code.                                                      *)

W == config.Width
H == config.Height

\* even-q layout: col = q, row = r + ceil(q / 2)
OffsetOf(c) == [col |-> c.Q, row |-> c.R + ((c.Q + 1) \div 2)]

AxialOf(col, row) == [Q |-> col, R |-> row - ((col + 1) \div 2)]

InRect(o) == o.col \in 0..(W - 1) /\ o.row \in 0..(H - 1)

IsCell(c) == InRect(OffsetOf(c))

Interior(c) ==
    LET o == OffsetOf(c)
    IN  0 < o.col /\ o.col < W - 1 /\ 0 < o.row /\ o.row < H - 1

Outside(c) == config.Topology = TopologyRegion /\ ~IsCell(c)

HexDist(a, b) ==
    (abs(a.Q - b.Q) + abs(a.Q + a.R - b.Q - b.R) + abs(a.R - b.R)) \div 2

\* the cell a coordinate denotes: itself in Region, its offset reduced
\* modulo the grid dimensions in World
CellOf(c) ==
    IF config.Topology = TopologyWorld
    THEN LET o == OffsetOf(c) IN AxialOf(o.col % W, o.row % H)
    ELSE c

CellsOf(cfg) ==
    {AxialOf(col, row) : col \in 0..(cfg.Width - 1), row \in 0..(cfg.Height - 1)}

----------------------------------------------------------------------------
(* Floating point.  A float64 x is modelled by the integer x * Unit.  A     *)
(* product or quotient is rounded away from zero to the next multiple of   *)
(* 1/Unit: as in float64, it is zero only when a factor or the dividend is. *)

Unit == 10

\* the value of 0/0 (findMinMax of a constant array, a threshold of zero)
NaN == 1000000000

\* n / d for d > 0, rounded away from zero
RoundAway(n, d) == IF n >= 0 THEN (n + d - 1) \div d ELSE -((d - n - 1) \div d)

\* the literal n/d of the source, rounded to the nearest multiple of 1/Unit
Literal(n, d) == (2 * n * Unit + d) \div (2 * d)

FMul(a, b) == RoundAway(a * b, Unit)

\* a / b for b # 0
FDiv(a, b) == IF b > 0 THEN RoundAway(a * Unit, b) ELSE RoundAway(-(a * Unit), -b)

\* math.Sqrt(x) for x >= 0
FSqrt(x) == CHOOSE k \in 0..(x + Unit) : k * k <= x * Unit /\ (k + 1) * (k + 1) > x * Unit

\* math.Pow(x, n) for a whole exponent n >= 0
RECURSIVE FPow(_, _)
FPow(x, n) == IF n = 0 THEN Unit ELSE FMul(FPow(x, n - 1), x)

\* a matrix [0..rows-1][0..cols-1] of zeros: make([][]float64, rows), each make([]float64, cols)
Zeros(rows, cols) == [y \in 0..(rows - 1) |-> [x \in 0..(cols - 1) |-> 0]]

----------------------------------------------------------------------------
(* math/rand: a generator object is its state.  NewSource(seed) sets the   *)
(* state from the seed alone; every Float64() advances it and returns a    *)
(* value in [0, 1).                                                        *)

RngMod == 64

NewSource(seed) == seed % RngMod

\* the generator object of the previous call kept and reused
NewRandShared(seed, last) == last

\* rand.New(rand.NewSource(seed)): a new object; last is the state in which
\* the generator of the previous call was left, which the new object never sees
NewRand(seed, last) == NewSource(seed)

\* the state after one Float64()
RngStep(s) == (5 * s + 3) % RngMod

\* the value returned by the Float64() that left the generator in state s
Float64(s) == (s * Unit) \div RngMod

----------------------------------------------------------------------------
(* internal/noise: DiamondSquare *)

RECURSIVE IsPowerOfTwo(_)
IsPowerOfTwo(n) == n = 1 \/ (n > 1 /\ n % 2 = 0 /\ IsPowerOfTwo(n \div 2))

\* the test n < 3 replaced by n < 2
isPowerOfTwoPlusOneFromTwo(n) == n >= 2 /\ IsPowerOfTwo(n - 1)

\* n >= 3 and (n-1) & (n-2) = 0
isPowerOfTwoPlusOne(n) == n >= 3 /\ IsPowerOfTwo(n - 1)

\* the loop  for v := from; v < size; v += step
Ticks(from, step, size) ==
    IF from >= size THEN << >>
    ELSE [i \in 1..((size - 1 - from) \div step + 1) |-> from + (i - 1) * step]

\* the neighbour index wrapped modulo size
EdgeIndexModular(n, size) == n % size

\* the neighbour index after the edge rule: below 0 becomes size-1, size or more becomes 0
EdgeIndex(n, size) == IF n < 0 THEN size - 1 ELSE IF n >= size THEN 0 ELSE n

\* the neighbours after the edge rule: up, down, left, right, as <<nx, ny>>
DiamondNeighbors(x, y, halfStep, size) ==
    << <<x, EdgeIndex(y - halfStep, size)>>, <<x, EdgeIndex(y + halfStep, size)>>,
       <<EdgeIndex(x - halfStep, size), y>>, <<EdgeIndex(x + halfStep, size), y>> >>

\* the neighbours that pass the range test
Included(neighbors, size) ==
    {i \in DOMAIN neighbors : /\ neighbors[i][1] >= 0 /\ neighbors[i][1] < size
                              /\ neighbors[i][2] >= 0 /\ neighbors[i][2] < size}

RECURSIVE SumOver(_, _, _)
SumOver(heightmap, neighbors, S) ==
    IF S = {} THEN 0
    ELSE heightmap[neighbors[CHOOSE i \in S : TRUE][2]][neighbors[CHOOSE i \in S : TRUE][1]]
           + SumOver(heightmap, neighbors, S \ {CHOOSE i \in S : TRUE})

MeanOver(heightmap, neighbors, S) ==
    IF Cardinality(S) > 0 THEN FDiv(SumOver(heightmap, neighbors, S), Cardinality(S) * Unit)
    ELSE 0

diamondAverage(heightmap, x, y, halfStep, size) ==
    MeanOver(heightmap, DiamondNeighbors(x, y, halfStep, size),
             Included(DiamondNeighbors(x, y, halfStep, size), size))

\* the mean of the four corners of the square centred on (x, y)
squareAverage(heightmap, x, y, halfStep) ==
    FDiv(heightmap[y - halfStep][x - halfStep] + heightmap[y - halfStep][x + halfStep]
           + heightmap[y + halfStep][x - halfStep] + heightmap[y + halfStep][x + halfStep], 4 * Unit)

\* The state of a DiamondSquare call is st = [hm, rng, panicked, order, unset].
\* The last two fields are history: order lists the assignments made so far,
\* each as <<x, y, generator state after its draw>>, and unset holds
\* <<x, y, nx, ny>> for every read of a cell (nx, ny) that had not been
\* assigned when the average for the cell (x, y) read it.

\* heightmap[y][x] = base + (rng.Float64()*2 - 1) * scale, the generator
\* advanced by the draw
Assign(st, x, y, base, scale) ==
    [st EXCEPT !.hm[y][x] = base + FMul(Float64(RngStep(st.rng)) * 2 - Unit, scale),
               !.rng = RngStep(st.rng),
               !.order = Append(@, <<x, y, RngStep(st.rng)>>)]

\* the cells assigned so far, as <<x, y>>
Assigned(st) == { <<st.order[k][1], st.order[k][2]>> : k \in DOMAIN st.order }

\* the average for the cell (x, y) reads the cells in cells, each <<nx, ny>>
Reading(st, x, y, cells) ==
    [st EXCEPT !.unset = @ \cup { <<x, y, c[1], c[2]>> : c \in cells \ Assigned(st) }]

\* the cells read by the diamond step for (x, y): the four corners of its square
SquareCorners(x, y, halfStep) ==
    { <<x - halfStep, y - halfStep>>, <<x + halfStep, y - halfStep>>,
      <<x - halfStep, y + halfStep>>, <<x + halfStep, y + halfStep>> }

\* the cells read by diamondAverage for (x, y): the neighbours it includes
DiamondCells(x, y, halfStep, size) ==
    { DiamondNeighbors(x, y, halfStep, size)[i] :
          i \in Included(DiamondNeighbors(x, y, halfStep, size), size) }

\* the corners assigned column by column
CornersColumnMajor(st, size) ==
    Assign(Assign(Assign(Assign(st, 0, 0, 0, Unit), 0, size - 1, 0, Unit),
                  size - 1, 0, 0, Unit),
           size - 1, size - 1, 0, Unit)

\* the four corners, in the order of the code
Corners(st, size) ==
    Assign(Assign(Assign(Assign(st, 0, 0, 0, Unit), size - 1, 0, 0, Unit),
                  0, size - 1, 0, Unit),
           size - 1, size - 1, 0, Unit)

\* one row of the diamond step: xs[i..] at row y
RECURSIVE DiamondRow(_, _, _, _, _, _)
DiamondRow(st, xs, i, y, halfStep, scale) ==
    IF i > Len(xs) THEN st
    ELSE DiamondRow(Assign(Reading(st, xs[i], y, SquareCorners(xs[i], y, halfStep)),
                           xs[i], y, squareAverage(st.hm, xs[i], y, halfStep), scale),
                    xs, i + 1, y, halfStep, scale)

RECURSIVE DiamondStep(_, _, _, _, _, _)
DiamondStep(st, ys, j, stepSize, scale, size) ==
    IF j > Len(ys) THEN st
    ELSE DiamondStep(DiamondRow(st, Ticks(stepSize \div 2, stepSize, size), 1, ys[j],
                                stepSize \div 2, scale),
                     ys, j + 1, stepSize, scale, size)

RECURSIVE SquareRow(_, _, _, _, _, _, _)
SquareRow(st, xs, i, y, halfStep, scale, size) ==
    IF i > Len(xs) THEN st
    ELSE SquareRow(Assign(Reading(st, xs[i], y, DiamondCells(xs[i], y, halfStep, size)),
                          xs[i], y, diamondAverage(st.hm, xs[i], y, halfStep, size), scale),
                   xs, i + 1, y, halfStep, scale, size)

RECURSIVE SquareStep(_, _, _, _, _, _)
SquareStep(st, ys, j, stepSize, scale, size) ==
    IF j > Len(ys) THEN st
    ELSE SquareStep(SquareRow(st, Ticks(GoMod(ys[j] + stepSize \div 2, stepSize), stepSize, size),
                              1, ys[j], stepSize \div 2, scale, size),
                    ys, j + 1, stepSize, scale, size)

\* the loop  for stepSize > 1 { diamond step; square step; stepSize /= 2; scale *= roughness }
RECURSIVE Refine(_, _, _, _, _)
Refine(st, stepSize, scale, roughness, size) ==
    IF stepSize <= 1 THEN st
    ELSE Refine(SquareStep(DiamondStep(st, Ticks(stepSize \div 2, stepSize, size), 1,
                                       stepSize, scale, size),
                           Ticks(0, stepSize \div 2, size), 1, stepSize, scale, size),
                stepSize \div 2, FMul(scale, roughness), roughness, size)

\* DiamondSquare(size, roughness, seed): the heightmap, the state in which the
\* generator is left, and whether the call panicked on the size
DiamondSquare(size, roughness, seed, last) ==
    IF ~isPowerOfTwoPlusOne(size)
    THEN [hm |-> << >>, rng |-> last, panicked |-> TRUE, order |-> << >>, unset |-> {}]
    ELSE Refine(Corners([hm |-> Zeros(size, size), rng |-> NewRand(seed, last),
                         panicked |-> FALSE, order |-> << >>, unset |-> {}], size),
                size - 1, roughness, roughness, size)

----------------------------------------------------------------------------
(* internal/noise: MultiOctaveNoise, SpectralSynthesis *)

max(a, b) == IF a > b THEN a ELSE b

RECURSIVE Doubled(_, _)
Doubled(n, size) == IF n + 1 < size THEN Doubled(n * 2, size) ELSE n

nextPowerOfTwoPlusOne(size) ==
    IF size <= 1 THEN 3
    ELSE IF isPowerOfTwoPlusOne(size) THEN size
    ELSE Doubled(2, size) + 1

\* The same two functions on the machine representation of their argument.
\* A Go int is IntBits bits in two's complement, bit 0 the least significant:
\* n *= 2 drops the top bit, so the doubling of the search loop wraps.

IntBits == 64

BitIndex == 0..(IntBits - 1)

\* the int of value v, for 0 <= v < 2^30
BitsOf(v) == [i \in BitIndex |-> IF i < 30 THEN (v \div 2^i) % 2 ELSE 0]

\* the value of the int n, for 0 <= n < 2^30
RECURSIVE ValueFrom(_, _)
ValueFrom(n, i) == IF i >= 30 THEN 0 ELSE n[i] + 2 * ValueFrom(n, i + 1)

ValueOf(n) == ValueFrom(n, 0)

\* the int of value 2^k, for 0 <= k < IntBits - 1
PowerOfTwoInt(k) == [i \in BitIndex |-> IF i = k THEN 1 ELSE 0]

\* n + 1 and n - 1: the low bits up to the first 0 (resp. the first 1) flip
IncInt(n) == [i \in BitIndex |-> IF \A j \in 0..(i - 1) : n[j] = 1 THEN 1 - n[i] ELSE n[i]]
DecInt(n) == [i \in BitIndex |-> IF \A j \in 0..(i - 1) : n[j] = 0 THEN 1 - n[i] ELSE n[i]]

\* n * 2
DoubleInt(n) == [i \in BitIndex |-> IF i = 0 THEN 0 ELSE n[i - 1]]

\* a & b
AndInt(a, b) == [i \in BitIndex |-> a[i] * b[i]]

IsZeroInt(n) == \A i \in BitIndex : n[i] = 0

\* a < b for signed ints: by the sign bit, then as unsigned numbers
LessInt(a, b) ==
    IF a[IntBits - 1] # b[IntBits - 1] THEN a[IntBits - 1] = 1
    ELSE \E i \in BitIndex : a[i] < b[i] /\ \A j \in (i + 1)..(IntBits - 1) : a[j] = b[j]

\* if n < 3 { return false }; n--; return n > 0 && (n&(n-1)) == 0
isPowerOfTwoPlusOneInt(n) ==
    /\ ~LessInt(n, BitsOf(3))
    /\ LessInt(BitsOf(0), DecInt(n))
    /\ IsZeroInt(AndInt(DecInt(n), DecInt(DecInt(n))))

\* the loop  for n+1 < size { n *= 2 }: the n it ends with, or ends = FALSE
\* when it never ends (n = 0 is doubled to 0 while 1 < size)
RECURSIVE DoubledInt(_, _)
DoubledInt(n, size) ==
    IF ~LessInt(IncInt(n), size) THEN [ends |-> TRUE, n |-> n]
    ELSE IF IsZeroInt(n) THEN [ends |-> FALSE, n |-> n]
    ELSE DoubledInt(DoubleInt(n), size)

\* return n + 1 after the loop
Returned(loop) == [ends |-> loop.ends, value |-> IncInt(loop.n)]

\* nextPowerOfTwoPlusOne(size): whether the call returns, and what
nextPowerOfTwoPlusOneInt(size) ==
    IF ~LessInt(BitsOf(1), size) THEN [ends |-> TRUE, value |-> BitsOf(3)]
    ELSE IF isPowerOfTwoPlusOneInt(size) THEN [ends |-> TRUE, value |-> size]
    ELSE Returned(DoubledInt(BitsOf(2), size))

\* int(float64(x) * frequency) % noiseSize, made non-negative
NoiseIndex(x, frequency, noiseSize) ==
    LET n == GoMod(GoDiv(x * frequency, Unit), noiseSize)
    IN  IF n < 0 THEN n + noiseSize ELSE n

\* the body of the octave loop after its DiamondSquare call: the octave is
\* added to the result; acc = [result, amplitude, frequency, maxValue, rng, panicked]
AddOctave(acc, octaveNoise, width, height, persistence, lacunarity, noiseSize) ==
    [result    |-> [y \in 0..(height - 1) |-> [x \in 0..(width - 1) |->
                      acc.result[y][x]
                        + FMul(octaveNoise.hm[NoiseIndex(y, acc.frequency, noiseSize)]
                                             [NoiseIndex(x, acc.frequency, noiseSize)],
                               acc.amplitude)]],
     amplitude |-> FMul(acc.amplitude, persistence),
     frequency |-> FMul(acc.frequency, lacunarity),
     maxValue  |-> acc.maxValue + acc.amplitude,
     rng       |-> octaveNoise.rng,
     panicked  |-> FALSE]

RECURSIVE Octaves(_, _, _, _, _, _, _, _, _)

\* one octave, given what its DiamondSquare call did: a panic of that call
\* ends the loop, and the call of MultiOctaveNoise with it
Octave(acc, octaveNoise, octave, octaves, width, height, persistence, lacunarity, seed, noiseSize) ==
    IF octaveNoise.panicked THEN [acc EXCEPT !.panicked = TRUE]
    ELSE Octaves(AddOctave(acc, octaveNoise, width, height, persistence, lacunarity, noiseSize),
                 octave + 1, octaves, width, height, persistence, lacunarity, seed, noiseSize)

\* the octave loop
Octaves(acc, octave, octaves, width, height, persistence, lacunarity, seed, noiseSize) ==
    IF octave >= octaves THEN acc
    ELSE Octave(acc, DiamondSquare(noiseSize, Literal(1, 2), seed + octave * 1000, acc.rng),
                octave, octaves, width, height, persistence, lacunarity, seed, noiseSize)

\* MultiOctaveNoise for octaves >= 1: the normalised result and the state in
\* which the generator of the last octave is left
\* the normalisation loop: every entry divided by maxValue
Normalized(acc) ==
    IF acc.panicked THEN [hm |-> << >>, rng |-> acc.rng, panicked |-> TRUE]
    ELSE [hm  |-> [y \in DOMAIN acc.result |-> [x \in DOMAIN acc.result[y] |->
                      FDiv(acc.result[y][x], acc.maxValue)]],
          rng |-> acc.rng,
          panicked |-> FALSE]

MultiOctaveNoise(width, height, octaves, persistence, lacunarity, scale, seed, last) ==
    Normalized(Octaves([result |-> Zeros(height, width), amplitude |-> Unit,
                        frequency |-> scale, maxValue |-> 0, rng |-> last,
                        panicked |-> FALSE],
                       0, octaves, width, height, persistence, lacunarity, seed,
                       nextPowerOfTwoPlusOne(max(width, height))))

\* the values of a matrix
Entries(data) == {data[y][x] : y \in DOMAIN data, x \in DOMAIN data[0]}

MinOfSet(S) == CHOOSE m \in S : \A v \in S : m <= v
MaxOfSet(S) == CHOOSE m \in S : \A v \in S : m >= v

findMinMax(data) ==
    IF DOMAIN data = {} \/ DOMAIN data[0] = {} THEN <<0, 0>>
    ELSE <<MinOfSet(Entries(data)), MaxOfSet(Entries(data))>>

\* math.Cos of an angle given in turns (t * Unit is the angle / 2 pi): the
\* cosine is sampled by its chords through 1, 0, -1, 0 at the quarter turns
CosTurns(t) ==
    LET u == t % Unit
        q == Unit \div 4
    IN  IF u <= 2 * q THEN GoDiv((q - u) * Unit, q) ELSE GoDiv((u - 3 * q) * Unit, q)

\* freq := math.Sqrt(float64(fx*fx + fy*fy)), 1 when that is 0
Frequency(fx, fy) ==
    IF fx * fx + fy * fy = 0 THEN Unit ELSE FSqrt((fx * fx + fy * fy) * Unit)

\* the body of the frequency loop: one phase is drawn and the wave
\* amplitude * cos(spatial + phase) is added to every cell; acc = [result, rng]
AddWave(acc, fx, fy, width, height, halfBeta) ==
    [result |-> [y \in 0..(height - 1) |-> [x \in 0..(width - 1) |->
                   acc.result[y][x]
                     + FMul(FDiv(Unit, FPow(Frequency(fx, fy), halfBeta)),
                            CosTurns(GoDiv(fx * x * Unit, width) + GoDiv(fy * y * Unit, height)
                                       + Float64(RngStep(acc.rng))))]],
     rng |-> RngStep(acc.rng)]

\* the frequency loop, row-major over (fy, fx)
RECURSIVE Spectrum(_, _, _, _, _)
Spectrum(acc, k, width, height, halfBeta) ==
    IF k >= (width \div 2) * (height \div 2) THEN acc
    ELSE Spectrum(AddWave(acc, k % (width \div 2), k \div (width \div 2), width, height,
                          halfBeta),
                  k + 1, width, height, halfBeta)

\* SpectralSynthesis(width, height, beta, seed) for beta = 2 * halfBeta
\* the normalisation loop: 2 * (v - minVal) / (maxVal - minVal) - 1, which is
\* 0/0 when all values are equal
Rescaled(acc, minMax) ==
    [hm  |-> [y \in DOMAIN acc.result |-> [x \in DOMAIN acc.result[y] |->
                 IF minMax[2] = minMax[1] THEN NaN
                 ELSE FDiv(2 * (acc.result[y][x] - minMax[1]), minMax[2] - minMax[1]) - Unit]],
     rng |-> acc.rng,
     panicked |-> FALSE]

SpectrumOf(acc) == Rescaled(acc, findMinMax(acc.result))

SpectralSynthesis(width, height, halfBeta, seed, last) ==
    SpectrumOf(Spectrum([result |-> Zeros(height, width), rng |-> NewRand(seed, last)],
                        0, width, height, halfBeta))

----------------------------------------------------------------------------
(* pkg/terrain: configuration, hypsometric curve, tile assembly *)

NoError == "nil"

\* DefaultTerrainConfig(): seed 42, sea level 0.0, land ratio 0.29, six
\* octaves, persistence 0.5, lacunarity 2.0, scale 0.01, Hurst exponent 0.85
DefaultTerrainConfig ==
    [Seed |-> 42, SeaLevel |-> 0, LandRatio |-> Literal(29, 100),
     NoiseParams |-> [Octaves |-> 6, Persistence |-> Literal(1, 2), Lacunarity |-> 2 * Unit,
                      Scale |-> Literal(1, 100), HurstExp |-> Literal(85, 100)]]

\* the lacunarity rule rejecting only values below 1.0
ValidateLax(tc) ==
    IF tc.LandRatio < 0 \/ tc.LandRatio > Unit
    THEN "land_ratio must be between 0.0 and 1.0"
    ELSE IF tc.NoiseParams.Octaves < 1 \/ tc.NoiseParams.Octaves > 10
    THEN "octaves must be between 1 and 10"
    ELSE IF tc.NoiseParams.Persistence <= 0 \/ tc.NoiseParams.Persistence > Unit
    THEN "persistence must be between 0.0 and 1.0"
    ELSE IF tc.NoiseParams.Lacunarity < Unit
    THEN "lacunarity must be greater than 1.0"
    ELSE IF tc.NoiseParams.HurstExp < 0 \/ tc.NoiseParams.HurstExp > Unit
    THEN "hurst_exp must be between 0.0 and 1.0"
    ELSE NoError

\* TerrainConfig.Validate(): the first rule broken, or nil
Validate(tc) ==
    IF tc.LandRatio < 0 \/ tc.LandRatio > Unit
    THEN "land_ratio must be between 0.0 and 1.0"
    ELSE IF tc.NoiseParams.Octaves < 1 \/ tc.NoiseParams.Octaves > 10
    THEN "octaves must be between 1 and 10"
    ELSE IF tc.NoiseParams.Persistence <= 0 \/ tc.NoiseParams.Persistence > Unit
    THEN "persistence must be between 0.0 and 1.0"
    ELSE IF tc.NoiseParams.Lacunarity <= Unit
    THEN "lacunarity must be greater than 1.0"
    ELSE IF tc.NoiseParams.HurstExp < 0 \/ tc.NoiseParams.HurstExp > Unit
    THEN "hurst_exp must be between 0.0 and 1.0"
    ELSE NoError

\* the bounding box of the offsets of coords, for a non-empty coords
Extent(S) == MaxOfSet(S) - MinOfSet(S) + 1

calculateGridDimensions(coords) ==
    IF Len(coords) = 0 THEN <<0, 0>>
    ELSE <<Extent({ToOffset(coords[i]).col : i \in DOMAIN coords}),
           Extent({ToOffset(coords[i]).row : i \in DOMAIN coords})>>

GenerateHeightmap(width, height, params, seed, last) ==
    MultiOctaveNoise(width, height, params.Octaves, params.Persistence, params.Lacunarity,
                     params.Scale, seed, last)

\* the rows of a matrix appended one after the other
Flatten(heightmap) ==
    LET w == Cardinality(DOMAIN heightmap[0])
    IN  [i \in 1..(Cardinality(DOMAIN heightmap) * w) |-> heightmap[(i - 1) \div w][(i - 1) % w]]

\* sort.Float64s: insertion of s[n] into the sorted s[1..n-1]
\* v put after the k entries of the sorted rest that are <= v
Inserted(rest, v, k) == SubSeq(rest, 1, k) \o <<v>> \o SubSeq(rest, k + 1, Len(rest))

InsertSorted(rest, v) == Inserted(rest, v, Cardinality({i \in DOMAIN rest : rest[i] <= v}))

RECURSIVE SortFloat64s(_)
SortFloat64s(s) ==
    IF Len(s) <= 1 THEN s
    ELSE InsertSorted(SortFloat64s(SubSeq(s, 1, Len(s) - 1)), s[Len(s)])

\* metres per unit of ratio^3 resp. ratio^2.5 when those powers are kept to
\* three times the digits of a ratio (Unit * Unit divides 6000 and 8800)
OceanScale == 6000 \div (Unit * Unit)
LandScale == 8800 \div (Unit * Unit)

\* math.Pow(ratio, 2.5) for 0 <= ratio <= 1, in multiples of 1/Unit^3
PowTwoAndHalf(ratio) ==
    CHOOSE k \in 0..(Unit * Unit * Unit) :
        /\ k * k <= ratio * ratio * ratio * ratio * ratio * Unit
        /\ (k + 1) * (k + 1) > ratio * ratio * ratio * ratio * ratio * Unit

\* math.Pow(ratio, 3), in multiples of 1/Unit^3
Cube(ratio) == ratio * ratio * ratio

\* the ocean branch: -(ratio^3 * 6000) with ratio = v / T clipped below at 0;
\* for T = 0 the ratio is -Inf (clipped to 0) or, for v = 0, NaN
OceanDepth(v, T) ==
    IF T = 0
    THEN IF v = 0 THEN NaN ELSE 0
    ELSE -(Cube(IF FDiv(v, T) < 0 THEN 0 ELSE FDiv(v, T)) * OceanScale)

\* the land branch: ratio^2.5 * 8800 with ratio = (v - T) / (1 - T) clipped above at 1;
\* a zero divisor gives +Inf, clipped to 1, and a negative ratio has no 2.5th power
LandHeight(v, T) ==
    IF T = Unit THEN PowTwoAndHalf(Unit) * LandScale
    ELSE IF FDiv(v - T, Unit - T) > Unit THEN PowTwoAndHalf(Unit) * LandScale
    ELSE IF FDiv(v - T, Unit - T) < 0 THEN NaN
    ELSE PowTwoAndHalf(FDiv(v - T, Unit - T)) * LandScale

\* int(float64(n) * (1.0 - targetLandRatio)), at most n - 1
SeaLevelIndex(n, targetLandRatio) ==
    IF GoDiv(n * (Unit - targetLandRatio), Unit) >= n THEN n - 1
    ELSE GoDiv(n * (Unit - targetLandRatio), Unit)

\* elevations[seaLevelIndex] of the sorted elevations (a Go slice, from 0)
SeaLevelThreshold(elevations, targetLandRatio) ==
    elevations[SeaLevelIndex(Len(elevations), targetLandRatio) + 1]

\* the transformation loop
Transformed(heightmap, seaLevelThreshold) ==
    [y \in DOMAIN heightmap |-> [x \in DOMAIN heightmap[y] |->
        IF heightmap[y][x] <= seaLevelThreshold
        THEN OceanDepth(heightmap[y][x], seaLevelThreshold)
        ELSE LandHeight(heightmap[y][x], seaLevelThreshold)]]

ApplyHypsometricCurve(heightmap, targetLandRatio) ==
    IF targetLandRatio <= 0 \/ targetLandRatio >= Unit THEN heightmap
    ELSE Transformed(heightmap,
                     SeaLevelThreshold(SortFloat64s(Flatten(heightmap)), targetLandRatio))

\* the bounds of a realistic elevation, in metres
ElevationMin == -11000 * Unit
ElevationMax == 8849 * Unit

\* HexTile.IsRealistic: both comparisons are false for a NaN
IsRealistic(ht) ==
    ht.Elevation # NaN /\ ht.Elevation >= ElevationMin /\ ht.Elevation <= ElevationMax

\* a tile at sea level counted as land
ClassifyLandWaterInclusive(elevation, seaLevel) == elevation # NaN /\ elevation >= seaLevel

\* HexTile.ClassifyLandWater: elevation > seaLevel, false for a NaN
ClassifyLandWater(elevation, seaLevel) == elevation # NaN /\ elevation > seaLevel

\* heightmap is non-empty: its dimensions are those of the non-empty grid
\* n % size, plus size when that is negative
WrappedIndex(n, size) == IF GoMod(n, size) < 0 THEN GoMod(n, size) + size ELSE GoMod(n, size)

\* the tile of one coordinate
NewHexTile(coord, elevation, seaLevel) ==
    [Coordinates |-> coord, Elevation |-> elevation,
     IsLand |-> ClassifyLandWater(elevation, seaLevel), DistanceToWater |-> 0]

\* the columns read from right to left
SampledMirrored(heightmap, o, height, width) ==
    heightmap[WrappedIndex(o.row, height)][WrappedIndex(width - 1 - o.col, width)]

\* heightmap[y][x] for the offset (col, row) of coord
Sampled(heightmap, o, height, width) ==
    heightmap[WrappedIndex(o.row, height)][WrappedIndex(o.col, width)]

TilesOf(heightmap, coords, seaLevel, height, width) ==
    [i \in DOMAIN coords |->
        NewHexTile(coords[i], Sampled(heightmap, ToOffset(coords[i]), height, width), seaLevel)]

HeightmapToHexTiles(heightmap, seaLevel) ==
    TilesOf(heightmap, AllCoords, seaLevel, Cardinality(DOMAIN heightmap),
            IF Cardinality(DOMAIN heightmap) > 0 THEN Cardinality(DOMAIN heightmap[0]) ELSE 0)

\* GenerateTerrain(grid, config) on the grid of the state: the tiles, the
\* error, and the state in which the last generator is left
\* a failed call: no tiles, the error, no generator used.  As for the
\* synthesizers, the field hm of a result is the value the call returns.
Failed(err, last) == [hm |-> [tiles |-> << >>, err |-> err], rng |-> last, panicked |-> FALSE]

\* the steps after GenerateHeightmap: the curve, the tiles; nothing recovers
\* from a panic of the synthesizer
Shaped(noise, tc) ==
    IF noise.panicked
    THEN [hm |-> [tiles |-> << >>, err |-> NoError], rng |-> noise.rng, panicked |-> TRUE]
    ELSE [hm  |-> [tiles |-> HeightmapToHexTiles(ApplyHypsometricCurve(noise.hm, tc.LandRatio),
                                                 tc.SeaLevel),
                   err   |-> NoError],
          rng |-> noise.rng,
          panicked |-> FALSE]

Generated(dim, tc, last) ==
    Shaped(GenerateHeightmap(dim[1], dim[2], tc.NoiseParams, tc.Seed, last), tc)

Checked(err, tc, last) ==
    IF err # NoError THEN Failed(err, last)
    ELSE IF Len(AllCoords) = 0 THEN Failed("empty grid provided", last)
    ELSE Generated(calculateGridDimensions(AllCoords), tc, last)

GenerateTerrain(tc, last) == Checked(Validate(tc), tc, last)

----------------------------------------------------------------------------
(* pkg/terrain: ValidateTerrain, IsRealisticTerrain.  Elevations are metres *)
(* in multiples of 1/Unit; the percentile curve is correlated in whole     *)
(* metres, which keeps every product within the integers.                  *)

\* the largest k in lo..hi with k * k <= n
RECURSIVE SqrtBetween(_, _, _)
SqrtFrom(n, lo, hi, mid) ==
    IF mid * mid <= n THEN SqrtBetween(n, mid, hi) ELSE SqrtBetween(n, lo, mid - 1)

SqrtBetween(n, lo, hi) == IF lo >= hi THEN lo ELSE SqrtFrom(n, lo, hi, (lo + hi + 1) \div 2)

\* the integer part of the square root of a whole number below 2^31
ISqrt(n) == SqrtBetween(n, 0, 46340)

\* math.Sqrt(x) for x >= 0
Sqrt(x) == ISqrt(x * Unit)

RECURSIVE Sum(_)
Sum(values) ==
    IF Len(values) = 0 THEN 0
    ELSE Sum(SubSeq(values, 1, Len(values) - 1)) + values[Len(values)]

Elevations(hexTiles) == [i \in DOMAIN hexTiles |-> hexTiles[i].Elevation]

findMinMaxFloat64(values) ==
    IF Len(values) = 0 THEN <<0, 0>>
    ELSE <<MinOfSet({values[i] : i \in DOMAIN values}),
           MaxOfSet({values[i] : i \in DOMAIN values})>>

calculateMean(values) ==
    IF Len(values) = 0 THEN 0 ELSE RoundAway(Sum(values), Len(values))

\* diff * diff of the loop
SquaredDiffs(values, mean) ==
    [i \in DOMAIN values |-> FMul(values[i] - mean, values[i] - mean)]

\* the sample deviation: the sum of squares is divided by len(values) - 1
calculateStdDev(values, mean) ==
    IF Len(values) <= 1 THEN 0
    ELSE Sqrt(RoundAway(Sum(SquaredDiffs(values, mean)), Len(values) - 1))

\* float64(count) / float64(total) * 100.0, to the nearest 1/Unit above
Percentage(count, total) == RoundAway(count * 100 * Unit, total)

\* Earth's percentiles, in metres
earthPercentiles == <<-6000, -4000, -2000, -500, -100, 50, 200, 500, 1000, 2000>>

\* the percentile indices 0.1, ..., 0.9, 0.95, in hundredths
percentileIndices == <<10, 20, 30, 40, 50, 60, 70, 80, 90, 95>>

\* int(p * float64(len(sorted))), at most len(sorted) - 1
PercentileIndex(p, n) == IF GoDiv(p * n, 100) >= n THEN n - 1 ELSE GoDiv(p * n, 100)

\* ourPercentiles, in metres
OurPercentiles(sorted) ==
    [i \in DOMAIN percentileIndices |->
        RoundAway(sorted[PercentileIndex(percentileIndices[i], Len(sorted)) + 1], Unit)]

Centered(x, mean) == [i \in DOMAIN x |-> x[i] - mean]

Dot(a, b) == Sum([i \in DOMAIN a |-> a[i] * b[i]])

\* numerator / sqrt(sumXSquares * sumYSquares), 0 when the root is 0
Quotient(numerator, denominator) ==
    IF denominator = 0 THEN 0 ELSE Round(numerator * Unit, denominator)

CorrelationOf(xDiff, yDiff) ==
    Quotient(Dot(xDiff, yDiff), ISqrt(Dot(xDiff, xDiff)) * ISqrt(Dot(yDiff, yDiff)))

calculateCorrelation(x, y) ==
    IF Len(x) # Len(y) \/ Len(x) = 0 THEN 0
    ELSE CorrelationOf(Centered(x, RoundAway(Sum(x), Len(x))),
                       Centered(y, RoundAway(Sum(y), Len(y))))

\* (correlation + 1.0) / 2.0 of the sorted elevations' percentiles
calculateHypsometricMatch(elevations) ==
    IF Len(elevations) = 0 THEN 0
    ELSE FDiv(calculateCorrelation(OurPercentiles(SortFloat64s(elevations)),
                                   earthPercentiles) + Unit, 2 * Unit)

\* TerrainStats{}
ZeroStats ==
    [ElevationRange |-> <<0, 0>>, ElevationMean |-> 0, ElevationStdDev |-> 0,
     LandPercentage |-> 0, WaterPercentage |-> 0, HypsometricMatch |-> 0,
     TotalTiles |-> 0, LandTiles |-> 0, WaterTiles |-> 0]

\* land counted by elevation instead of by the tile's flag
CountLandByElevation(hexTiles) == Cardinality({i \in DOMAIN hexTiles : hexTiles[i].Elevation > 0})

\* landCount of the loop; waterCount is the rest
CountLand(hexTiles) == Cardinality({i \in DOMAIN hexTiles : hexTiles[i].IsLand})

StatsOf(hexTiles, elevations, landCount) ==
    [ElevationRange   |-> findMinMaxFloat64(elevations),
     ElevationMean    |-> calculateMean(elevations),
     ElevationStdDev  |-> calculateStdDev(elevations, calculateMean(elevations)),
     LandPercentage   |-> Percentage(landCount, Len(hexTiles)),
     WaterPercentage  |-> Percentage(Len(hexTiles) - landCount, Len(hexTiles)),
     HypsometricMatch |-> calculateHypsometricMatch(elevations),
     TotalTiles       |-> Len(hexTiles),
     LandTiles        |-> landCount,
     WaterTiles       |-> Len(hexTiles) - landCount]

ValidateTerrain(hexTiles) ==
    IF Len(hexTiles) = 0 THEN ZeroStats
    ELSE StatsOf(hexTiles, Elevations(hexTiles), CountLand(hexTiles))

\* the five messages, in the order of the five tests
IssueText ==
    << "minimum elevation too low (deeper than Mariana Trench)",
       "maximum elevation too high (higher than Everest)",
       "land percentage outside realistic range (20-40%)",
       "elevation distribution doesn't match Earth's hypsometric curve",
       "elevation variance outside realistic range" >>

\* expectedStdDev := 2000.0
expectedStdDev == 2000 * Unit

\* issues = append(issues, text) when the test holds
Appended(issues, test, text) == IF test THEN Append(issues, text) ELSE issues

\* the five tests, each made whatever the others gave
Issues(stats) ==
    Appended(
      Appended(
        Appended(
          Appended(
            Appended(<< >>,
                     stats.ElevationRange[1] < FMul(ElevationMin, Literal(12, 10)),
                     IssueText[1]),
            stats.ElevationRange[2] > FMul(ElevationMax, Literal(12, 10)),
            IssueText[2]),
          stats.LandPercentage < 20 * Unit \/ stats.LandPercentage > 40 * Unit,
          IssueText[3]),
        stats.HypsometricMatch < Literal(8, 10),
        IssueText[4]),
      \/ stats.ElevationStdDev < FMul(expectedStdDev, Literal(1, 2))
      \/ stats.ElevationStdDev > FMul(expectedStdDev, 2 * Unit),
      IssueText[5])

\* return len(issues) == 0, issues
Verdict(issues) == [ok |-> Len(issues) = 0, issues |-> issues]

\* the tests stopped at the first issue
IsRealisticTerrainFirstIssue(stats) == Verdict(SubSeq(Issues(stats), 1, 1))

IsRealisticTerrain(stats) == Verdict(Issues(stats))

----------------------------------------------------------------------------
(* The calls, as actions.  The core is single-threaded and synchronous: a  *)
(* call is made when no other call is in progress, op holds the call that  *)
(* has just returned until the caller has consumed its result (Return),    *)
(* and a panic ends the program.                                           *)

Origin == [Q |-> 0, R |-> 0]

Call(name, a, b, ret) == [name |-> name, a |-> a, b |-> b, ret |-> ret]

NoCall == Call("none", Origin, Origin, Nil)

Idle == op.name = "none" /\ ~panicked

\* coordinates named by the distance scenarios on the 10 x 8 grid
ProbePoints ==
    { [Q |-> 0, R |-> 0], [Q |-> 9, R |-> 0], [Q |-> 1, R |-> 0],
      [Q |-> 1, R |-> 7], [Q |-> 9, R |-> 7], [Q |-> 2, R |-> 1] }

\* three cells of the 5 x 3 grid: the first and the third are each one wrap
\* away from the second
TrianglePoints ==
    { [Q |-> 0, R |-> 2], [Q |-> 4, R |-> 0], [Q |-> 3, R |-> -2] }

\* arguments of the pure calls: the bounded coordinates and the scenario points
Args == Coords \cup ProbePoints \cup TrianglePoints

SetCall(c, v) ==
    /\ Idle
    /\ nsets < MaxSets
    /\ LET r == SetResult(c, v)
       IN  /\ tiles' = r.tiles
           /\ panicked' = r.panicked
    /\ lastSet' = [x \in DOMAIN lastSet |-> IF CellOf(c) = x THEN v ELSE lastSet[x]]
    /\ nsets' = nsets + 1
    /\ UNCHANGED <<config, coordMap, op, terrainVars>>

GetCall(c) ==
    /\ Idle
    /\ LET r == Get(c)
       IN  /\ op' = Call("Get", c, Origin, r.ret)
           /\ panicked' = r.panicked
    /\ UNCHANGED <<gridVars, lastSet, nsets, terrainVars>>

IsValidCall(c) ==
    /\ Idle
    /\ op' = Call("IsValid", c, Origin, IsValid(c))
    /\ UNCHANGED <<gridVars, lastSet, nsets, panicked, terrainVars>>

AllCoordsCall ==
    /\ Idle
    /\ op' = Call("AllCoords", Origin, Origin, AllCoords)
    /\ UNCHANGED <<gridVars, lastSet, nsets, panicked, terrainVars>>

NeighborsCall(c) ==
    /\ Idle
    /\ op' = Call("Neighbors", c, Origin, Neighbors(c))
    /\ UNCHANGED <<gridVars, lastSet, nsets, panicked, terrainVars>>

IsEdgeHexCall(c) ==
    /\ Idle
    /\ op' = Call("IsEdgeHex", c, Origin, IsEdgeHex(c))
    /\ UNCHANGED <<gridVars, lastSet, nsets, panicked, terrainVars>>

WrapCoordCall(c) ==
    /\ Idle
    /\ op' = Call("WrapCoord", c, Origin, WrapCoord(c))
    /\ UNCHANGED <<gridVars, lastSet, nsets, panicked, terrainVars>>

ToOffsetCall(c) ==
    /\ Idle
    /\ op' = Call("ToOffset", c, Origin, ToOffset(c))
    /\ UNCHANGED <<gridVars, lastSet, nsets, panicked, terrainVars>>

\* the argument (col, row) is recorded as the pair a.Q = col, a.R = row
OffsetToAxialCall(col, row) ==
    /\ Idle
    /\ op' = Call("OffsetToAxial", [Q |-> col, R |-> row], Origin, OffsetToAxial(col, row))
    /\ UNCHANGED <<gridVars, lastSet, nsets, panicked, terrainVars>>

DistanceToCall(a, b) ==
    /\ Idle
    /\ op' = Call("DistanceTo", a, b, DistanceTo(a, b))
    /\ UNCHANGED <<gridVars, lastSet, nsets, panicked, terrainVars>>

ShortestPathCall(a, b) ==
    /\ Idle
    /\ op' = Call("ShortestPath", a, b, ShortestPath(a, b))
    /\ UNCHANGED <<gridVars, lastSet, nsets, panicked, terrainVars>>

\* a generation call that has returned: recorded with its arguments and result
Made(name, args, ret) == [name |-> name, args |-> args, ret |-> ret]

\* a generation call returns r.hm, leaves its generator in r.rng, or panics
Generate(name, args, r) ==
    /\ op' = Call(name, args, Origin, r.hm)
    /\ history' = Append(history, Made(name, args, r.hm))
    /\ rngLast' = r.rng
    /\ panicked' = r.panicked
    /\ UNCHANGED <<gridVars, lastSet, nsets>>

GenerateTerrainCall(tc) ==
    /\ Idle
    /\ Len(history) < MaxCalls
    /\ Generate("GenerateTerrain", tc, GenerateTerrain(tc, rngLast))

DiamondSquareCall(size, roughness, seed) ==
    /\ Idle
    /\ Len(history) < MaxCalls
    /\ Generate("DiamondSquare", <<size, roughness, seed>>,
                DiamondSquare(size, roughness, seed, rngLast))

MultiOctaveNoiseCall(width, height, params, seed) ==
    /\ Idle
    /\ Len(history) < MaxCalls
    /\ Generate("MultiOctaveNoise", <<width, height, params, seed>>,
                MultiOctaveNoise(width, height, params.Octaves, params.Persistence,
                                 params.Lacunarity, params.Scale, seed, rngLast))

SpectralSynthesisCall(width, height, halfBeta, seed) ==
    /\ Idle
    /\ Len(history) < MaxCalls
    /\ Generate("SpectralSynthesis", <<width, height, halfBeta, seed>>,
                SpectralSynthesis(width, height, halfBeta, seed, rngLast))

ApplyHypsometricCurveCall(heightmap, targetLandRatio) ==
    /\ Idle
    /\ op' = Call("ApplyHypsometricCurve", heightmap, targetLandRatio,
                  ApplyHypsometricCurve(heightmap, targetLandRatio))
    /\ UNCHANGED <<gridVars, lastSet, nsets, panicked, terrainVars>>

\* col % width and row % height divide by zero, a run-time panic, when the
\* heightmap has no row or no column and the grid has a cell
HeightmapToHexTilesCall(heightmap, seaLevel) ==
    /\ Idle
    /\ IF Len(AllCoords) > 0 /\ (DOMAIN heightmap = {} \/ DOMAIN heightmap[0] = {})
       THEN /\ op' = Call("HeightmapToHexTiles", heightmap, seaLevel, << >>)
            /\ panicked' = TRUE
       ELSE /\ op' = Call("HeightmapToHexTiles", heightmap, seaLevel,
                          HeightmapToHexTiles(heightmap, seaLevel))
            /\ UNCHANGED panicked
    /\ UNCHANGED <<gridVars, lastSet, nsets, terrainVars>>

ValidateTerrainCall(tileList) ==
    /\ Idle
    /\ op' = Call("ValidateTerrain", tileList, Origin, ValidateTerrain(tileList))
    /\ UNCHANGED <<gridVars, lastSet, nsets, panicked, terrainVars>>

IsRealisticTerrainCall(stats) ==
    /\ Idle
    /\ op' = Call("IsRealisticTerrain", stats, Origin, IsRealisticTerrain(stats))
    /\ UNCHANGED <<gridVars, lastSet, nsets, panicked, terrainVars>>

DiamondAverageCall(heightmap, x, y, halfStep, size) ==
    /\ Idle
    /\ op' = Call("diamondAverage", <<heightmap, x, y, halfStep, size>>, Origin,
                  diamondAverage(heightmap, x, y, halfStep, size))
    /\ UNCHANGED <<gridVars, lastSet, nsets, panicked, terrainVars>>

\* a call whose search loop never ends does not return: the program makes no
\* further step
NextPowerOfTwoPlusOneCall(size) ==
    /\ Idle
    /\ op' = Call("nextPowerOfTwoPlusOne", size, Origin, nextPowerOfTwoPlusOneInt(size))
    /\ panicked' = ~nextPowerOfTwoPlusOneInt(size).ends
    /\ UNCHANGED <<gridVars, lastSet, nsets, terrainVars>>

\* the caller has taken the result of the call that returned
Return ==
    /\ op.name # "none"
    /\ ~panicked
    /\ op' = NoCall
    /\ UNCHANGED <<gridVars, lastSet, nsets, panicked, terrainVars>>

----------------------------------------------------------------------------
(* Specifications *)

GridConfigs == [Width : Widths, Height : Heights, Topology : Topologies]

\* the grids of the literal scenarios: 5 x 3 and 10 x 8
ScenarioConfigs ==
    { [Width |-> 5, Height |-> 3, Topology |-> t] : t \in Topologies } \cup
    { [Width |-> 10, Height |-> 8, Topology |-> t] : t \in Topologies }

InitWith(cfgs) ==
    /\ config \in cfgs
    /\ tiles = NewGridTiles(config)
    /\ coordMap = NewGridCoordMap(config)
    /\ lastSet = [x \in CellsOf(config) |-> Nil]
    /\ nsets = 0
    /\ op = NoCall
    /\ panicked = FALSE
    /\ rngLast = 0
    /\ history = << >>

\* the grids whose cells are written and read back: 3 x 2 is the grid of
\* TestGridAllCoords, the others are its sub-shapes
GridShapes == { <<1, 1>>, <<2, 1>>, <<1, 2>>, <<2, 2>>, <<3, 2>> }

StoreConfigs ==
    { [Width |-> s[1], Height |-> s[2], Topology |-> t] : s \in GridShapes, t \in Topologies }

\* Spec: a grid built by NewGrid, then any sequence of grid calls
Init == InitWith(StoreConfigs)

SetValues == Values \cup {Nil}

Next ==
    \/ \E c \in Coords, v \in SetValues : SetCall(c, v)
    \/ \E c \in Coords : GetCall(c)
    \/ \E c \in Coords : IsValidCall(c)
    \/ AllCoordsCall
    \/ \E c \in Coords : NeighborsCall(c)
    \/ Return

Spec == Init /\ [][Next]_vars

\* SpecPure: the pure coordinate functions applied to bounded inputs
InitPure == InitWith(GridConfigs \cup ScenarioConfigs)

NextPure ==
    \/ \E c \in Args : ToOffsetCall(c)
    \/ \E c \in Args : OffsetToAxialCall(c.Q, c.R)
    \/ \E c \in Args : WrapCoordCall(c)
    \/ \E c \in Args : IsValidCall(c)
    \/ \E c \in Args : NeighborsCall(c)
    \/ \E c \in Args : IsEdgeHexCall(c)
    \/ \E a \in Args, b \in Args : DistanceToCall(a, b)
    \/ \E a \in Args, b \in Args : ShortestPathCall(a, b)
    \/ Return

SpecPure == InitPure /\ [][NextPure]_vars

\* SpecTerrain: a grid built by NewGrid, then any sequence of generation calls
TerrainGrids ==
    { [Width |-> 3, Height |-> 2, Topology |-> TopologyRegion],
      [Width |-> 2, Height |-> 2, Topology |-> TopologyWorld] }

\* the seed of DefaultTerrainConfig and another one
Seeds == {42, 7}

\* two octaves sampled at scale 1.0, so that neighbouring cells differ
RoughParams == [DefaultTerrainConfig.NoiseParams EXCEPT !.Octaves = 2, !.Scale = Unit]

\* a configuration in which half of the cells are land
RoughConfigs ==
    { [DefaultTerrainConfig EXCEPT !.Seed = s, !.LandRatio = Literal(1, 2),
                                   !.NoiseParams = RoughParams] : s \in Seeds }

\* the default configuration, and the rough one
TerrainConfigs ==
    { [DefaultTerrainConfig EXCEPT !.Seed = s] : s \in Seeds } \cup RoughConfigs

\* <<size, seed>>: the sizes 3 and 5 of the form 2^k + 1, and 0, 2, 4 and
\* the 100 of TestDiamondSquareInvalidSize, which are not
DiamondSquareCases ==
    { <<3, 42>>, <<3, 7>>, <<5, 42>>, <<4, 42>>, <<0, 42>>, <<2, 42>>, <<100, 42>> }

InitTerrain == InitWith(TerrainGrids)

NextTerrain ==
    \/ \E tc \in TerrainConfigs : GenerateTerrainCall(tc)
    \/ \E a \in DiamondSquareCases : DiamondSquareCall(a[1], Literal(1, 2), a[2])
    \/ MultiOctaveNoiseCall(2, 2, RoughParams, 42)
    \/ SpectralSynthesisCall(4, 4, 1, 42)
    \/ Return

SpecTerrain == InitTerrain /\ [][NextTerrain]_vars

\* SpecConfig: one GenerateTerrain call on a grid with or without cells,
\* with a configuration on either side of each validation rule
ConfigGrids ==
    TerrainGrids \cup
    { [Width |-> 0, Height |-> 2, Topology |-> TopologyRegion],
      [Width |-> 2, Height |-> 0, Topology |-> TopologyWorld] }

\* DefaultTerrainConfig with one noise parameter replaced
WithOctaves(n) == [DefaultTerrainConfig EXCEPT !.NoiseParams.Octaves = n]
WithPersistence(p) == [DefaultTerrainConfig EXCEPT !.NoiseParams.Persistence = p]
WithLacunarity(l) == [DefaultTerrainConfig EXCEPT !.NoiseParams.Lacunarity = l]
WithHurstExp(h) == [DefaultTerrainConfig EXCEPT !.NoiseParams.HurstExp = h]

\* the values below, at and above the limits of each rule, in 1 / Unit
ConfigCases ==
    TerrainConfigs \cup
    { [DefaultTerrainConfig EXCEPT !.LandRatio = l] : l \in {-1, 0, Unit, Unit + 1} } \cup
    { WithOctaves(n) : n \in {-1, 0, 1, 10, 11} } \cup
    { WithPersistence(p) : p \in {-1, 0, 1, Unit, Unit + 1} } \cup
    { WithLacunarity(l) : l \in {Unit - 1, Unit, Unit + 1} } \cup
    { WithHurstExp(h) : h \in {-1, 0, Unit, Unit + 1} } \cup
    { [WithOctaves(0) EXCEPT !.LandRatio = Unit + 1] }

InitConfig == InitWith(ConfigGrids)

NextConfig ==
    \/ \E tc \in ConfigCases : history = << >> /\ GenerateTerrainCall(tc)
    \/ Return

SpecConfig == InitConfig /\ [][NextConfig]_vars

\* SpecShape: ApplyHypsometricCurve applied to bounded heightmaps, and one
\* GenerateTerrain call

\* the longest single-row heightmap
MaxCells == 4

\* raw values: the ends of [-1, 1], zero, and one value on either side
Levels == {-Unit, -2, 0, 3, Unit}

\* the single-row heightmaps of n cells
Rows(n) == { [y \in {0} |-> row] : row \in [0..(n - 1) -> Levels] }

\* the heightmap of TestApplyHypsometricCurve
TestHeightmap ==
    [y \in 0..1 |-> [x \in 0..4 |->
        IF y = 0 THEN <<-10, -5, 0, 5, 10>>[x + 1] ELSE <<-8, -3, 2, 7, 9>>[x + 1]]]

Heightmaps == UNION { Rows(n) : n \in 1..MaxCells } \cup {TestHeightmap}

\* target land ratios: 0.3, 0.4 (the test), 0.5, 0.7, and the two extremes
LandRatios == {0, Literal(3, 10), Literal(4, 10), Literal(1, 2), Literal(7, 10), Unit}

InitShape == InitWith(TerrainGrids)

NextShape ==
    \/ \E hm \in Heightmaps, l \in LandRatios : ApplyHypsometricCurveCall(hm, l)
    \/ \E tc \in RoughConfigs : history = << >> /\ GenerateTerrainCall(tc)
    \/ Return

SpecShape == InitShape /\ [][NextShape]_vars

\* SpecStats: tile assembly and the statistics functions applied to bounded
\* inputs

\* a matrix from its rows
Matrix(rows) ==
    [y \in 0..(Len(rows) - 1) |-> [x \in 0..(Len(rows[y + 1]) - 1) |-> rows[y + 1][x + 1]]]

\* the heightmap of TestHeightmapToHexTiles, in metres
TestElevations ==
    Matrix(<< <<-100 * Unit, 200 * Unit, 1500 * Unit>>, <<-50 * Unit, 0, 800 * Unit>> >>)

\* that heightmap, two that are smaller than the grids, and one without rows
TileHeightmaps ==
    { TestElevations,
      Matrix(<< <<0, 200 * Unit>> >>),
      Matrix(<< <<-50 * Unit>>, <<800 * Unit>> >>),
      Matrix(<< >>) }

SeaLevels == {-50 * Unit, 0, 200 * Unit}

StatsGrids ==
    TerrainGrids \cup { [Width |-> 0, Height |-> 2, Topology |-> TopologyRegion] }

\* the longest tile list, but for the one of TestValidateTerrain
MaxTiles == 3

\* the elevations of TestValidateTerrain, each on a land and on a water tile
TileKinds ==
    { [Coordinates |-> Origin, Elevation |-> e * Unit, IsLand |-> l, DistanceToWater |-> 0] :
          e \in {-2000, -500, 100, 1500}, l \in BOOLEAN }

TestTiles ==
    << NewHexTile([Q |-> 0, R |-> 0], -2000 * Unit, 0), NewHexTile([Q |-> 1, R |-> 0], 100 * Unit, 0),
       NewHexTile([Q |-> 0, R |-> 1], 1500 * Unit, 0), NewHexTile([Q |-> 1, R |-> 1], -500 * Unit, 0) >>

TileLists == UNION { [1..n -> TileKinds] : n \in 0..MaxTiles } \cup {TestTiles}

\* statistics on either side of each limit of IsRealisticTerrain, and those
\* of TestIsRealisticTerrain: elevations and deviations in metres / Unit,
\* percentages in 1 / Unit, the match in 1 / Unit
StatsCases ==
    { [ZeroStats EXCEPT !.ElevationRange = <<lo, hi>>, !.LandPercentage = land,
                        !.HypsometricMatch = match, !.ElevationStdDev = dev] :
          lo \in {-15000 * Unit, -13200 * Unit - 1, -13200 * Unit, -3000 * Unit},
          hi \in {3000 * Unit, 106188, 106189, 15000 * Unit},
          land \in {20 * Unit - 1, 20 * Unit, 30 * Unit, 40 * Unit, 40 * Unit + 1, 80 * Unit},
          match \in {5, 7, 8, 9},
          dev \in {500 * Unit, 1000 * Unit - 1, 1000 * Unit, 2000 * Unit,
                   4000 * Unit, 4000 * Unit + 1} }

InitStats == InitWith(StatsGrids)

NextStats ==
    \/ \E hm \in TileHeightmaps, l \in SeaLevels : HeightmapToHexTilesCall(hm, l)
    \/ \E tileList \in TileLists : ValidateTerrainCall(tileList)
    \/ \E stats \in StatsCases : IsRealisticTerrainCall(stats)
    \/ Return

SpecStats == InitStats /\ [][NextStats]_vars

\* SpecSize: nextPowerOfTwoPlusOne applied to small sizes and to sizes near
\* the top of the int range, and the synthesizer called through its callers

\* the largest small size; 128 -> 129 is the last scenario of
\* TestNextPowerOfTwoPlusOne
MaxSize == 130

\* the largest ints: 2^62 and the numbers around it, and the largest one
LargeSizes ==
    { DecInt(PowerOfTwoInt(IntBits - 2)), PowerOfTwoInt(IntBits - 2),
      IncInt(PowerOfTwoInt(IntBits - 2)), IncInt(IncInt(PowerOfTwoInt(IntBits - 2))),
      DecInt(DoubleInt(PowerOfTwoInt(IntBits - 2))) }

SmallSizes == { BitsOf(n) : n \in 1..MaxSize }

SizeCases == SmallSizes \cup LargeSizes

\* the longest side of a heightmap asked of MultiOctaveNoise
MaxSide == 4

InitSize == InitWith(TerrainGrids)

NextSize ==
    \/ \E size \in SizeCases : history = << >> /\ NextPowerOfTwoPlusOneCall(size)
    \/ \E width \in 1..MaxSide, height \in 1..MaxSide :
           history = << >> /\ MultiOctaveNoiseCall(width, height, RoughParams, 42)
    \/ \E tc \in RoughConfigs : history = << >> /\ GenerateTerrainCall(tc)
    \/ Return

SpecSize == InitSize /\ [][NextSize]_vars

\* SpecAverage: diamondAverage applied to lattices of side 3 and 5, and up to
\* two DiamondSquare calls, the second finding the generator of the first

\* a lattice of side S whose cells all differ: hm[y][x] = 3 * (y * S + x) - 20
Ramp(S) == [y \in 0..(S - 1) |-> [x \in 0..(S - 1) |-> 3 * (y * S + x) - 20]]

\* the ramps, and the lattices DiamondSquare returns
Lattices ==
    { Ramp(3), Ramp(5) } \cup
    { DiamondSquare(S, Literal(1, 2), seed, 0).hm : S \in {3, 5}, seed \in Seeds }

\* the half steps of the rounds on a lattice of side S: (S-1)/2, ..., 1
HalfSteps(S) == { h \in 1..((S - 1) \div 2) : IsPowerOfTwo(h) }

InitAverage == InitWith(TerrainGrids)

NextAverage ==
    \/ \E hm \in Lattices :
         \E x \in DOMAIN hm, y \in DOMAIN hm, h \in HalfSteps(Cardinality(DOMAIN hm)) :
             history = << >> /\ DiamondAverageCall(hm, x, y, h, Cardinality(DOMAIN hm))
    \/ \E a \in DiamondSquareCases :
           Len(history) < 2 /\ DiamondSquareCall(a[1], Literal(1, 2), a[2])
    \/ Return

SpecAverage == InitAverage /\ [][NextAverage]_vars

\* SpecSampling: on every grid shape of either topology, one GenerateTerrain
\* call, or the tiles of a heightmap of the grid's dimensions whose cells
\* all differ

\* hm[y][x] = y * width + x
IndexMap(dim) == [y \in 0..(dim[2] - 1) |-> [x \in 0..(dim[1] - 1) |-> (y * dim[1] + x) * Unit]]

InitSampling == InitWith(GridConfigs)

NextSampling ==
    \/ \E tc \in TerrainConfigs : history = << >> /\ GenerateTerrainCall(tc)
    \/ \E l \in SeaLevels :
           HeightmapToHexTilesCall(IndexMap(calculateGridDimensions(AllCoords)), l)
    \/ Return

SpecSampling == InitSampling /\ [][NextSampling]_vars

----------------------------------------------------------------------------
(* The claims *)

\* C1: determinism.  Two generation calls with the same name and the same
\* arguments (for GenerateTerrain: the grid of the state and the same
\* TerrainConfig; for a synthesizer: the same sizes, parameters and seed)
\* return the same value, whatever calls were made before or between them
\* and in whatever state those left their generators.
SameCall(i, j) == history[i].name = history[j].name /\ history[i].args = history[j].args

C1_Determinism ==
    \A i \in DOMAIN history : \A j \in DOMAIN history :
        SameCall(i, j) => history[i].ret = history[j].ret

\* GenerateTerrain has returned tiles twice for the same configuration, with
\* a different generation call made between the two
C1_Witness ==
    /\ Len(history) = 3
    /\ history[1].name = "GenerateTerrain"
    /\ SameCall(1, 3)
    /\ ~SameCall(1, 2)
    /\ history[1].ret.err = NoError
    /\ Len(history[3].ret.tiles) = config.Width * config.Height
    /\ \E a \in DOMAIN history[3].ret.tiles : \E b \in DOMAIN history[3].ret.tiles :
           /\ history[3].ret.tiles[a].IsLand
           /\ ~history[3].ret.tiles[b].IsLand
    /\ history[2].name \in {"DiamondSquare", "MultiOctaveNoise", "SpectralSynthesis"}

\* C2: axial -> offset -> axial and offset -> axial -> offset are the
\* identity for every integer pair, negative values included, and
\* ToOffset(q, r) = (q, r + (q + (q AND 1)) / 2).
C2_RoundTrip ==
    /\ op.name = "ToOffset" =>
          /\ OffsetToAxial(op.ret.col, op.ret.row) = op.a
          /\ op.ret.col = op.a.Q
          /\ 2 * (op.ret.row - op.a.R) = op.a.Q + (op.a.Q % 2)
    /\ op.name = "OffsetToAxial" =>
          ToOffset(op.ret) = [col |-> op.a.Q, row |-> op.a.R]

C2_Witness ==
    op.name = "ToOffset" /\ op.a.Q < 0 /\ op.a.Q % 2 = 1 /\ op.a.R < 0

\* C3: AllCoords() returns exactly width x height pairwise distinct
\* coordinates, the i-th being the cell of offset (col, row) in row-major
\* order, each of them valid; also after Set calls.
C3_AllCoords ==
    op.name = "AllCoords" =>
        /\ Len(op.ret) = W * H
        /\ \A i, j \in 1..Len(op.ret) : i # j => op.ret[i] # op.ret[j]
        /\ \A i \in 1..Len(op.ret) :
              /\ OffsetOf(op.ret[i]) = [col |-> (i - 1) % W, row |-> (i - 1) \div W]
              /\ IsValid(op.ret[i])

C3_Witness ==
    op.name = "AllCoords" /\ nsets > 0 /\ W > 1 /\ H > 1 /\ \E rc \in DOMAIN tiles : tiles[rc] # Nil

NeighborCountCommon ==
    /\ (op.name = "Neighbors" /\ IsCell(op.a)) =>
          /\ \A i \in 1..Len(op.ret) : IsValid(op.ret[i]) /\ IsCell(op.ret[i])
          /\ config.Topology = TopologyWorld => Len(op.ret) = 6
          /\ (config.Topology = TopologyRegion /\ Interior(op.a)) => Len(op.ret) = 6
          /\ (W = 5 /\ H = 3 /\ op.a = Origin) =>
                Len(op.ret) = IF config.Topology = TopologyRegion THEN 3 ELSE 6
    /\ (op.name = "IsEdgeHex" /\ IsCell(op.a)) =>
          /\ op.ret = (Len(Neighbors(op.a)) < 6)
          /\ config.Topology = TopologyWorld => op.ret = FALSE

C5_WrapCoord ==
    op.name = "WrapCoord" =>
        IF config.Topology = TopologyWorld
        THEN LET o == OffsetOf(op.a)
             IN  /\ op.ret = AxialOf(o.col % W, o.row % H)
                 /\ IsCell(op.ret)
                 /\ IsValid(op.a)
                 /\ WrapCoord(op.ret) = op.ret
        ELSE op.ret = op.a

C5_Witness ==
    /\ op.name = "WrapCoord" /\ config.Topology = TopologyWorld
    /\ OffsetOf(op.a).col < 0 /\ OffsetOf(op.a).row < 0 /\ W > 1 /\ H > 1

\* a coordinate that denotes a cell: any coordinate in World, a coordinate
\* of the valid set in Region
DenotesCell(c) == config.Topology = TopologyWorld \/ IsCell(c)

\* the index <<row, col>> of the cell a coordinate denotes
CellIndex(c) == LET o == OffsetOf(CellOf(c)) IN <<o.row, o.col>>

GetReturnsLastSet ==
    /\ ~panicked
    /\ (op.name = "Get" /\ DenotesCell(op.a)) => op.ret = lastSet[CellOf(op.a)]

\* a step that is a Set(c, v) call aimed at a cell writes v there and nothing else
SetFrame ==
    \A c \in Coords, v \in SetValues :
        (nsets' # nsets /\ SetCall(c, v) /\ DenotesCell(c)) =>
            /\ tiles'[CellIndex(c)] = v
            /\ \A rc \in DOMAIN tiles : rc # CellIndex(c) => tiles'[rc] = tiles[rc]

OutsideCalls ==
    /\ ~panicked
    /\ (op.name = "IsValid" /\ Outside(op.a)) => op.ret = FALSE
    /\ (op.name = "Get" /\ Outside(op.a)) => op.ret = Nil
    /\ (op.name = "Neighbors" /\ config.Topology = TopologyRegion) =>
          \A i \in 1..Len(op.ret) : IsCell(op.ret[i])

\* a step that is a Set(c, v) call on an outside coordinate changes no cell
OutsideSetNoEffect ==
    \A c \in Coords, v \in SetValues :
        (nsets' # nsets /\ SetCall(c, v) /\ Outside(c)) => (tiles' = tiles /\ ~panicked')

\* C7: in Region, for a coordinate outside the valid set IsValid is false,
\* Get returns nil, Set changes no cell, nothing raises, and Neighbors
\* returns only coordinates of the valid set.
C7_OutsideRegion == []OutsideCalls /\ [][OutsideSetNoEffect]_vars

C7_Witness ==
    /\ op.name = "Get" /\ Outside(op.a) /\ nsets > 0
    /\ \E rc \in DOMAIN tiles : tiles[rc] # Nil

\* C8 as stated: in World, DistanceTo(a, b) is the least hex distance from
\* a to the nine replicas of b shifted by (dq * width, dr * height) in
\* OFFSET space; in Region it is the plain hex distance.
C8_DistanceOffsetReplicas ==
    op.name = "DistanceTo" =>
        IF config.Topology = TopologyRegion
        THEN op.ret = HexDist(op.a, op.b)
        ELSE LET o == OffsetOf(op.b)
             IN  op.ret = MinOf({HexDist(op.a, AxialOf(o.col + dq * W, o.row + dr * H)) :
                                     dq \in {-1, 0, 1}, dr \in {-1, 0, 1}})

DistanceCase(a, b, region, world) ==
    (op.name = "DistanceTo" /\ op.a = a /\ op.b = b) =>
        op.ret = IF config.Topology = TopologyRegion THEN region ELSE world

\* C9: on the 10 x 8 grid the distances (0,0)-(9,0), (1,0)-(1,7),
\* (0,0)-(9,7), (0,0)-(2,1) are 9, 7, 16, 3 in Region and 1, 1, 2, 3 in World.
C9_DistanceScenarios ==
    (W = 10 /\ H = 8) =>
        /\ DistanceCase([Q |-> 0, R |-> 0], [Q |-> 9, R |-> 0], 9, 1)
        /\ DistanceCase([Q |-> 1, R |-> 0], [Q |-> 1, R |-> 7], 7, 1)
        /\ DistanceCase([Q |-> 0, R |-> 0], [Q |-> 9, R |-> 7], 16, 2)
        /\ DistanceCase([Q |-> 0, R |-> 0], [Q |-> 2, R |-> 1], 3, 3)

C9_Witness ==
    /\ W = 10 /\ H = 8 /\ config.Topology = TopologyWorld
    /\ op.name = "DistanceTo" /\ op.a = [Q |-> 0, R |-> 0] /\ op.b = [Q |-> 9, R |-> 7]

\* C10: in both topologies DistanceTo(a, b) = DistanceTo(b, a) >= 0 and
\* DistanceTo(a, a) = 0.
C10_DistanceSymmetry ==
    op.name = "DistanceTo" =>
        /\ op.ret = DistanceTo(op.b, op.a)
        /\ op.ret >= 0
        /\ op.a = op.b => op.ret = 0

C10_Witness ==
    /\ op.name = "DistanceTo" /\ config.Topology = TopologyWorld
    /\ op.a # op.b /\ op.ret < HexDist(op.a, op.b)


\* C11 as stated: for all grid cells a, b, c, in both topologies,
\* DistanceTo(a, c) <= DistanceTo(a, b) + DistanceTo(b, c).
C11_TriangleInequality ==
    (op.name = "DistanceTo" /\ IsCell(op.a) /\ IsCell(op.b)) =>
        \A m \in {x \in Args : IsCell(x)} :
            op.ret <= DistanceTo(op.a, m) + DistanceTo(m, op.b)

\* C12 as stated: for all grid cells a and b, in both topologies,
\* ShortestPath(a, b) has exactly DistanceTo(a, b) + 1 coordinates, the
\* first being a and the last WrapCoord(b).
C12_PathLength ==
    (op.name = "ShortestPath" /\ IsCell(op.a) /\ IsCell(op.b)) =>
        /\ Len(op.ret) = DistanceTo(op.a, op.b) + 1
        /\ op.ret[1] = op.a
        /\ op.ret[Len(op.ret)] = WrapCoord(op.b)

\* C13 as stated: for all grid cells a and b, in both topologies, every
\* two consecutive coordinates of ShortestPath(a, b) are at DistanceTo
\* exactly 1.
C13_PathContiguous ==
    (op.name = "ShortestPath" /\ IsCell(op.a) /\ IsCell(op.b)) =>
        \A k \in 1..(Len(op.ret) - 1) : DistanceTo(op.ret[k], op.ret[k + 1]) = 1

\* the configurations the specification calls invalid
InvalidConfig(tc) ==
    \/ tc.LandRatio < 0 \/ tc.LandRatio > Unit
    \/ tc.NoiseParams.Octaves \notin 1..10
    \/ tc.NoiseParams.Persistence <= 0 \/ tc.NoiseParams.Persistence > Unit
    \/ tc.NoiseParams.Lacunarity <= Unit
    \/ tc.NoiseParams.HurstExp < 0 \/ tc.NoiseParams.HurstExp > Unit

\* C14: GenerateTerrain returns an error and no tiles exactly when the
\* land ratio is outside [0,1], the octaves are outside [1,10], the
\* persistence is outside (0,1], the lacunarity is <= 1, the Hurst exponent
\* is outside [0,1], or the grid has no cells; otherwise it returns no error
\* and width x height tiles.  It never returns an error with tiles.
C14_GenerateTerrainErrors ==
    op.name = "GenerateTerrain" =>
        /\ ~panicked
        /\ IF InvalidConfig(op.a) \/ W * H = 0
           THEN op.ret.err # NoError /\ op.ret.tiles = << >>
           ELSE op.ret.err = NoError /\ Len(op.ret.tiles) = W * H

C14_Witness ==
    /\ op.name = "GenerateTerrain"
    /\ W * H > 0
    /\ op.a.NoiseParams.Lacunarity = Unit
    /\ op.ret.err # NoError

\* the sizes of the form 2^k + 1 with k >= 1
ValidSize(n) == \E k \in 1..30 : n = 2^k + 1

\* C15 as stated: a size not of the form 2^k + 1 is rejected before
\* anything is generated, and the rejection is a returned failure value:
\* the call returns, with no heightmap.
C15_Original ==
    (op.name = "DiamondSquare" /\ ~ValidSize(op.a[1])) =>
        op.ret = << >> /\ ~panicked

\* C15, amended: a size not of the form 2^k + 1 (k >= 1) is rejected before
\* anything is generated (no heightmap, no generator created), and the
\* rejection is a panic: the call does not return.  A size of that form
\* gives a size x size heightmap, without a panic.
C15_InvalidSizePanics ==
    [][op'.name = "DiamondSquare" =>
        IF ValidSize(op'.a[1])
        THEN /\ ~panicked'
             /\ DOMAIN op'.ret = 0..(op'.a[1] - 1)
             /\ \A y \in DOMAIN op'.ret : DOMAIN op'.ret[y] = 0..(op'.a[1] - 1)
        ELSE panicked' /\ op'.ret = << >> /\ rngLast' = rngLast]_<<op.name, panicked>>

C15_Witness ==
    op.name = "DiamondSquare" /\ op.a[1] = 100 /\ panicked /\ history # << >>

\* the cells of a heightmap, as <<y, x>>
CellsIn(hm) == UNION { {<<y, x>> : x \in DOMAIN hm[y]} : y \in DOMAIN hm }

\* the number of cells of a shaped heightmap with a value > 0
LandCount(hm) == Cardinality({yx \in CellsIn(hm) : hm[yx[1]][yx[2]] # NaN /\ hm[yx[1]][yx[2]] > 0})

\* C16 as stated: for every heightmap of N cells and every target L in
\* (0,1), after ApplyHypsometricCurve the number of cells with value > 0
\* differs from L * N by at most one, also when cells share the threshold.
C16_LandFraction ==
    (op.name = "ApplyHypsometricCurve" /\ 0 < op.b /\ op.b < Unit) =>
        abs(LandCount(op.ret) * Unit - op.b * Cardinality(CellsIn(op.a))) <= Unit

\* C17 as stated: for every heightmap with values in [-1, 1] and every L in
\* (0,1), every value of ApplyHypsometricCurve lies in [-6000, +8800],
\* whatever the sign of the threshold; and every tile returned by
\* GenerateTerrain satisfies IsRealistic.
C17_HypsometricBounds ==
    /\ (op.name = "ApplyHypsometricCurve" /\ 0 < op.b /\ op.b < Unit) =>
           \A yx \in CellsIn(op.ret) :
               /\ op.ret[yx[1]][yx[2]] # NaN
               /\ op.ret[yx[1]][yx[2]] >= -6000 * Unit
               /\ op.ret[yx[1]][yx[2]] <= 8800 * Unit
    /\ op.name = "GenerateTerrain" =>
           \A i \in DOMAIN op.ret.tiles : IsRealistic(op.ret.tiles[i])

\* the heightmap cell of a coordinate: [row mod H][col mod W], floored
CellAt(heightmap, o) ==
    heightmap[o.row % Cardinality(DOMAIN heightmap)][o.col % Cardinality(DOMAIN heightmap[0])]

\* C18: for a heightmap of H >= 1 rows and W >= 1 columns,
\* HeightmapToHexTiles returns one tile per grid coordinate, in AllCoords()
\* order; tile i has the coordinate AllCoords()[i], the elevation
\* heightmap[row mod H][col mod W] of its offset (col, row), distance to
\* water 0, and is land exactly when its elevation is > sea level.
C18_TileAssembly ==
    (op.name = "HeightmapToHexTiles" /\ CellsIn(op.a) # {}) =>
        /\ ~panicked
        /\ Len(op.ret) = W * H
        /\ \A i \in 1..(W * H) :
               /\ op.ret[i].Coordinates = AllCoords[i]
               /\ op.ret[i].Elevation = CellAt(op.a, OffsetOf(AllCoords[i]))
               /\ op.ret[i].DistanceToWater = 0
               /\ op.ret[i].IsLand <=> (op.ret[i].Elevation > op.b)

\* a water tile exactly at sea level, sampled beyond the last column
C18_Witness ==
    /\ op.name = "HeightmapToHexTiles" /\ ~panicked
    /\ \E i \in DOMAIN op.ret :
           /\ op.ret[i].Elevation = op.b /\ ~op.ret[i].IsLand
           /\ OffsetOf(op.ret[i].Coordinates).col >= Cardinality(DOMAIN op.a[0])

\* C19: ValidateTerrain(tiles) has TotalTiles = the number of tiles,
\* LandTiles = the number of tiles with IsLand, WaterTiles = the number
\* without, hence LandTiles + WaterTiles = TotalTiles; each percentage is
\* its count / TotalTiles * 100 (to the last place kept); ElevationRange is
\* the least and the greatest elevation; for no tiles every field is zero.
C19_Statistics ==
    op.name = "ValidateTerrain" =>
        IF Len(op.a) = 0
        THEN /\ op.ret.ElevationRange = <<0, 0>>
             /\ \A f \in DOMAIN op.ret \ {"ElevationRange"} : op.ret[f] = 0
        ELSE /\ op.ret.TotalTiles = Len(op.a)
             /\ op.ret.LandTiles = Cardinality({i \in DOMAIN op.a : op.a[i].IsLand})
             /\ op.ret.WaterTiles = Cardinality({i \in DOMAIN op.a : ~op.a[i].IsLand})
             /\ op.ret.LandTiles + op.ret.WaterTiles = op.ret.TotalTiles
             /\ abs(op.ret.LandPercentage * Len(op.a) - op.ret.LandTiles * 100 * Unit) < Len(op.a)
             /\ abs(op.ret.WaterPercentage * Len(op.a) - op.ret.WaterTiles * 100 * Unit) < Len(op.a)
             /\ \E i \in DOMAIN op.a : op.ret.ElevationRange[1] = op.a[i].Elevation
             /\ \E i \in DOMAIN op.a : op.ret.ElevationRange[2] = op.a[i].Elevation
             /\ \A i \in DOMAIN op.a :
                    /\ op.ret.ElevationRange[1] <= op.a[i].Elevation
                    /\ op.a[i].Elevation <= op.ret.ElevationRange[2]

\* the tiles of TestValidateTerrain: 2 land, 2 water, 50 %, range -2000..1500
C19_Witness ==
    /\ op.name = "ValidateTerrain" /\ op.a = TestTiles
    /\ op.ret.LandTiles = 2 /\ op.ret.WaterTiles = 2
    /\ op.ret.LandPercentage = 50 * Unit
    /\ op.ret.ElevationRange = <<-2000 * Unit, 1500 * Unit>>

\* the five rules: min < -11000 * 1.2, max > 8849 * 1.2, land percentage
\* outside [20, 40], match < 0.8, deviation outside [1000, 4000]
RuleViolated(stats) ==
    << stats.ElevationRange[1] < -13200 * Unit,
       stats.ElevationRange[2] * 10 > 106188 * Unit,
       stats.LandPercentage < 20 * Unit \/ stats.LandPercentage > 40 * Unit,
       stats.HypsometricMatch * 10 < 8 * Unit,
       stats.ElevationStdDev < 1000 * Unit \/ stats.ElevationStdDev > 4000 * Unit >>

\* C20: IsRealisticTerrain(stats) evaluates all five rules: issues holds
\* exactly one entry per violated rule, in the order of the rules, and ok
\* is true exactly when issues is empty; five violated rules, five issues.
C20_AllRulesEvaluated ==
    op.name = "IsRealisticTerrain" =>
        /\ \A r \in 1..5 :
               Cardinality({j \in DOMAIN op.ret.issues : op.ret.issues[j] = IssueText[r]})
                   = IF RuleViolated(op.a)[r] THEN 1 ELSE 0
        /\ Len(op.ret.issues) = Cardinality({r \in 1..5 : RuleViolated(op.a)[r]})
        /\ \A j \in DOMAIN op.ret.issues, k \in DOMAIN op.ret.issues :
               j < k => \E r \in 1..5, q \in 1..5 :
                           r < q /\ op.ret.issues[j] = IssueText[r] /\ op.ret.issues[k] = IssueText[q]
        /\ op.ret.ok <=> (op.ret.issues = << >>)

\* the statistics of the test's last case: all five rules violated
C20_Witness ==
    /\ op.name = "IsRealisticTerrain"
    /\ op.a.ElevationRange = <<-15000 * Unit, 15000 * Unit>>
    /\ op.a.LandPercentage = 80 * Unit /\ op.a.HypsometricMatch = 5
    /\ op.a.ElevationStdDev = 500 * Unit
    /\ Len(op.ret.issues) = 5 /\ ~op.ret.ok

\* the numbers 2^k + 1 with k >= 1 that an int can hold
PlusOnes == { IncInt(PowerOfTwoInt(k)) : k \in 1..(IntBits - 2) }

\* r is the smallest number of the form 2^k + 1, k >= 1, that is >= n
SmallestPlusOne(r, n) ==
    /\ r \in PlusOnes
    /\ ~LessInt(r, n)
    /\ \A p \in PlusOnes : ~LessInt(p, n) => ~LessInt(p, r)

\* C21: the invalid-size panic of DiamondSquare cannot be reached through its
\* callers.  nextPowerOfTwoPlusOne(n) returns, for every n >= 1, the smallest
\* number of the form 2^k + 1 (k >= 1) that is >= n; on small sizes that is
\* the size MultiOctaveNoise passes to DiamondSquare, which accepts it; and
\* no call of MultiOctaveNoise or GenerateTerrain panics.
C21_SizeAlwaysValid ==
    /\ op.name = "nextPowerOfTwoPlusOne" =>
          /\ op.ret.ends
          /\ SmallestPlusOne(op.ret.value, op.a)
          /\ op.a \in SmallSizes =>
                /\ op.ret.value = BitsOf(nextPowerOfTwoPlusOne(ValueOf(op.a)))
                /\ isPowerOfTwoPlusOne(ValueOf(op.ret.value))
    /\ op.name \in {"MultiOctaveNoise", "GenerateTerrain"} => ~panicked

\* the cells <<y, x>> of a lattice of side S
Lattice(S) == (0..(S - 1)) \X (0..(S - 1))

\* a set of cells <<y, x>> in row-major order: by row, then by column
RowMajor(cells, S) ==
    [i \in 1..Cardinality(cells) |->
        CHOOSE c \in cells :
            Cardinality({d \in cells : d[1] * S + d[2] < c[1] * S + c[2]}) = i - 1]

\* the cells of the diamond step of a round: y and x in half, half + step, ...
DiamondStepCells(step, S) ==
    { c \in Lattice(S) : c[1] % step = step \div 2 /\ c[2] % step = step \div 2 }

\* the cells of the square step of a round: the rows 0, half, step, ..., the
\* columns offset by (y + half) mod step
SquareStepCells(step, S) ==
    { c \in Lattice(S) : /\ c[1] % (step \div 2) = 0
                         /\ c[2] % step = (c[1] + step \div 2) % step }

\* the rounds step, step / 2, ..., 2: diamond step, then square step
RECURSIVE Rounds(_, _)
Rounds(step, S) ==
    IF step < 2 THEN << >>
    ELSE RowMajor(DiamondStepCells(step, S), S) \o RowMajor(SquareStepCells(step, S), S)
           \o Rounds(step \div 2, S)

\* the claimed order of assignment, as cells <<y, x>>
ClaimedOrder(S) ==
    << <<0, 0>>, <<0, S - 1>>, <<S - 1, 0>>, <<S - 1, S - 1>> >> \o Rounds(S - 1, S)

\* the state of the generator seeded with seed after k draws
RECURSIVE StateAfter(_, _)
StateAfter(seed, k) == IF k = 0 THEN NewSource(seed) ELSE RngStep(StateAfter(seed, k - 1))

\* the call r of DiamondSquare(S, _, seed), which returned ret, assigned the
\* cells in the claimed order, the k-th of them with the k-th sample
OrderAsClaimed(r, S, seed, ret) ==
    /\ r.hm = ret
    /\ Len(r.order) = S * S
    /\ { <<r.order[k][2], r.order[k][1]>> : k \in DOMAIN r.order } = Lattice(S)
    /\ \A k \in DOMAIN r.order :
          /\ <<r.order[k][2], r.order[k][1]>> = ClaimedOrder(S)[k]
          /\ r.order[k][3] = StateAfter(seed, k)
    /\ r.rng = StateAfter(seed, S * S)
    /\ ret[0][0] = Float64(StateAfter(seed, 1)) * 2 - Unit

\* C22: a DiamondSquare call of side S draws exactly one sample per cell, S^2
\* in all, and assigns every cell exactly once, in this order: the corners
\* (0,0), (0,S-1), (S-1,0), (S-1,S-1), then for step = S-1, (S-1)/2, ..., 2
\* the diamond-step cells in row-major order followed by the square-step
\* cells in row-major order; the cell (0,0) holds the first sample.
C22_ConsumptionOrder ==
    [][op'.name = "DiamondSquare" /\ ~panicked' =>
           OrderAsClaimed(DiamondSquare(op'.a[1], op'.a[2], op'.a[3], rngLast),
                          op'.a[1], op'.a[3], op'.ret)]_<<op.name, panicked>>

\* a DiamondSquare call of side 5 (two rounds) has returned, its cell (0,0)
\* holding the first sample of the generator
C22_Witness ==
    /\ op.name = "DiamondSquare"
    /\ ~panicked
    /\ op.a[1] = 5
    /\ op.ret[0][0] = Float64(RngStep(NewSource(op.a[3]))) * 2 - Unit

\* the claimed neighbour index: below 0 it is S - 1, S or more it is 0
ClaimedIndex(n, S) == IF n < 0 THEN S - 1 ELSE IF n >= S THEN 0 ELSE n

\* the claimed base value: the mean of up, down, left and right at distance half
ClaimedMean(hm, x, y, half, S) ==
    FDiv(hm[ClaimedIndex(y - half, S)][x] + hm[ClaimedIndex(y + half, S)][x]
           + hm[y][ClaimedIndex(x - half, S)] + hm[y][ClaimedIndex(x + half, S)], 4 * Unit)

SampledByIdentity(hexTiles, heightmap) ==
    /\ calculateGridDimensions(AllCoords) = <<config.Width, config.Height>>
    /\ DOMAIN heightmap = 0..(config.Height - 1)
    /\ \A y \in DOMAIN heightmap : DOMAIN heightmap[y] = 0..(config.Width - 1)
    /\ Len(hexTiles) = config.Width * config.Height
    /\ \A i \in DOMAIN hexTiles :
          /\ ToOffset(hexTiles[i].Coordinates).row \in DOMAIN heightmap
          /\ ToOffset(hexTiles[i].Coordinates).col \in DOMAIN heightmap[0]
          /\ hexTiles[i].Elevation =
                heightmap[ToOffset(hexTiles[i].Coordinates).row]
                         [ToOffset(hexTiles[i].Coordinates).col]
    /\ \A i, j \in DOMAIN hexTiles :
          ToOffset(hexTiles[i].Coordinates) = ToOffset(hexTiles[j].Coordinates) => i = j

\* the shaped heightmap of a GenerateTerrain call with configuration tc
ShapedHeightmap(noise, tc) == ApplyHypsometricCurve(noise.hm, tc.LandRatio)

\* C24: on a grid built by NewGrid, of either topology, the heightmap of
\* GenerateTerrain has the width and height of the grid, every index
\* heightmap[row][col] used is in range, the tile at offset (col, row) holds
\* the shaped value at [row][col], and no two tiles sample the same cell.
C24_SamplingIdentity ==
    [][/\ op'.name = "GenerateTerrain" /\ op'.ret.err = NoError =>
            SampledByIdentity(op'.ret.tiles,
                              ShapedHeightmap(GenerateHeightmap(config.Width, config.Height,
                                                                op'.a.NoiseParams, op'.a.Seed,
                                                                rngLast),
                                              op'.a))
       /\ op'.name = "HeightmapToHexTiles" => SampledByIdentity(op'.ret, op'.a)
      ]_<<op.name, panicked>>

\* GenerateTerrain has returned the tiles of a World grid of three columns
\* and two rows, not all of one elevation
C24_Witness ==
    /\ op.name = "GenerateTerrain"
    /\ op.ret.err = NoError
    /\ config = [Width |-> 3, Height |-> 2, Topology |-> TopologyWorld]
    /\ Len(op.ret.tiles) = 6
    /\ \E i, j \in DOMAIN op.ret.tiles : op.ret.tiles[i].Elevation # op.ret.tiles[j].Elevation

\* the elements of a sequence
Range(seq) == { seq[i] : i \in DOMAIN seq }

\* the cells of the grid, as axial coordinates
GridCells == CellsOf(config)

\* C25 as stated: in Region topology, for all grid cells a and b, every
\* coordinate of ShortestPath(a, b) is a cell of the grid.
C25_RegionPathValid ==
    (/\ op.name = "ShortestPath"
     /\ config.Topology = TopologyRegion
     /\ IsCell(op.a) /\ IsCell(op.b)) =>
        \A k \in DOMAIN op.ret : IsCell(op.ret[k])

\* C26 as stated: in World topology, for all grid cells a and b, b is in
\* Neighbors(a) exactly when a is in Neighbors(b).
C26_NeighborSymmetry ==
    (/\ op.name = "Neighbors"
     /\ config.Topology = TopologyWorld
     /\ IsCell(op.a)) =>
        \A b \in GridCells : b \in Range(op.ret) <=> op.a \in Range(Neighbors(b))

\* C27 as stated: in World topology, on a grid of at least 3 x 3 cells, every
\* coordinate n returned by Neighbors(c) for a grid cell c is at DistanceTo
\* exactly 1 from c.
C27_NeighborsAtDistanceOne ==
    (/\ op.name = "Neighbors"
     /\ config.Topology = TopologyWorld
     /\ W >= 3 /\ H >= 3
     /\ IsCell(op.a)) =>
        \A n \in Range(op.ret) : DistanceTo(op.a, n) = 1

\* C28 as stated: every cell read for a diamond-step or square-step average
\* of DiamondSquare, the neighbours reached through the edge rule included,
\* has been assigned before, as a corner or by an earlier step.
C28_NoReadBeforeWrite ==
    [][op'.name = "DiamondSquare" /\ ~panicked' =>
           DiamondSquare(op'.a[1], op'.a[2], op'.a[3], rngLast).unset = {}
      ]_<<op.name, panicked>>

\* C29 as stated: for every heightmap with values in [-1, 1] and every L in
\* (0,1), two cells with raw values v1 <= v2 have shaped values
\* out(v1) <= out(v2), in the ocean branch too.  Only the pairs whose shaped
\* values are both numbers are judged.
C29_OrderPreserved ==
    (op.name = "ApplyHypsometricCurve" /\ 0 < op.b /\ op.b < Unit) =>
        \A c1, c2 \in CellsIn(op.a) :
            (/\ op.a[c1[1]][c1[2]] <= op.a[c2[1]][c2[2]]
             /\ op.ret[c1[1]][c1[2]] # NaN
             /\ op.ret[c2[1]][c2[2]] # NaN) =>
                op.ret[c1[1]][c1[2]] <= op.ret[c2[1]][c2[2]]

\* the threshold selected for a heightmap and a target land ratio
ThresholdOf(heightmap, targetLandRatio) ==
    SeaLevelThreshold(SortFloat64s(Flatten(heightmap)), targetLandRatio)

\* C30 as stated: for every heightmap with values in [-1, 1] and every L in
\* (0,1), the threshold T is not 0 when a cell takes the ocean branch v / T
\* and not 1 when a cell takes the land branch (v - T) / (1 - T), and every
\* output cell is a finite number.
C30_NoDivisionByZero ==
    (op.name = "ApplyHypsometricCurve" /\ 0 < op.b /\ op.b < Unit) =>
        \A c \in CellsIn(op.a) :
            /\ op.a[c[1]][c[2]] <= ThresholdOf(op.a, op.b) => ThresholdOf(op.a, op.b) # 0
            /\ op.a[c[1]][c[2]] > ThresholdOf(op.a, op.b) => ThresholdOf(op.a, op.b) # Unit
            /\ op.ret[c[1]][c[2]] # NaN

====
